---- MODULE Spec2Model ----
(***************************************************************************)
(* Repository/User analytics engine: bounded pagination over the GitHub    *)
(* API (GitHubService), the statistics aggregator and the read-through     *)
(* cache with its in-process fallback (RedisCacheService).                 *)
(*                                                                         *)
(* Time is counted in seconds since the Unix epoch: every offset the code  *)
(* uses (TTL * 1000 ms, N * 24 * 60 * 60 * 1000 ms) is a whole number of   *)
(* seconds.  A timestamp field that is null is the value Null.             *)
(***************************************************************************)
EXTENDS Integers, Sequences, FiniteSets, TLC

VARIABLES
    now,            \* the wall clock (Date.now() / new Date())
    \* ---- statistics aggregator ----
    zone,           \* time zone of the process (local-time Date arithmetic)
    aggPc,          \* "collect" | "done"
    aggPrs,         \* the PR list handed to the aggregator
    aggFilter,      \* the time filter of the query
    aggMaintainers, \* the maintainer handle set
    rollup,         \* calculateContributorStats(prs, maintainers)
    stats,          \* the aggregate assembled by fetchRepositoryStats
    again,          \* the result of aggregating the same input a second time
    \* ---- read-through cache (RedisCacheService) ----
    redisUp,            \* the distributed store accepts connections and
                        \* answers commands
    status,             \* connection of the client: "connecting" | "ready" | "end"
    retryAttempts,      \* failed connection attempts in a row (times)
    isConnected,
    useMemoryFallback,
    redisStore,         \* key -> [value, expiry] held by the distributed store
    memoryCache,        \* key -> [value, expiry], the in-process Map
    call,               \* per caller: the getOrFetch it is suspended in
    ret,                \* the last cache operation that returned, and its result
    written,            \* history: key -> [value, expiry] of the last set() that
                        \* returned, until the key is deleted or flushed; who
                        \* wrote it, the callers that were computing the key
                        \* at that time, whether the writer was one of those
                        \* of the entry it replaced, and the value replaced
    deleted,            \* history: the keys whose delete() has returned and
                        \* that were not set since
    storeAnswered,      \* history: the distributed store has answered a command
    ops,                \* history: number of cache operations started
    \* ---- a query against the GitHub API (GitHubService) ----
    query,          \* the query being served, NoQuery before the first one
    fpc,            \* where the query is suspended: the API call it awaits
    currentPage,    \* page / currentPage of the running loop
    allPRs,         \* allPRs / prs accumulated so far
    branches,       \* branch names accumulated so far
    maintainersList,\* the result of fetchMaintainers
    localStorage,   \* the browser's localStorage: key -> stored entry
    requests,       \* history: the API calls issued by the query, in order
    fetched,        \* history: the pages pulls.list has answered with, each
                    \* by its shape, in order
    sent,           \* history: the pages of pulls.list calls, as each call
                    \* is issued, where issuing and answering are two steps
    apiErrors,      \* history: the calls that failed, with the raw error
    setLog,         \* history: the cache keys the query has set
    outcome,        \* what the query returned or threw to its caller
    \* ---- requests served side by side by one controller ----
    octokit,        \* the credential of the client held by the controller's
                    \* GitHubService ("none": new Octokit({auth: undefined}))
    served,         \* per request: where its handler is suspended, its own
                    \* credential, the API calls issued for it and the
                    \* credential each carried, and its answer
    cachedAs        \* history: key -> the credential carried by the call
                    \* whose answer the entry last set for the key holds

aggVars == <<zone, aggPc, aggPrs, aggFilter, aggMaintainers, rollup, stats,
             again>>

connVars == <<redisUp, status, retryAttempts, isConnected, useMemoryFallback>>

cacheVars == <<connVars, redisStore, memoryCache, call, ret, written, deleted,
               storeAnswered, ops>>

fetchVars == <<query, fpc, currentPage, allPRs, branches, maintainersList,
               localStorage,
               requests, fetched, sent, apiErrors, setLog, outcome,
               octokit, served, cachedAs>>

Null == -1
Hour == 3600
Day == 86400

\* ---- bounds of the model ----
MaxPRs == 3             \* longest PR list handed to the contributor rollup
MaxTimelinePRs == 2     \* longest PR list in the timeline runs
BaseDay == 20           \* the clock readings lie on this day after the epoch
MaxOps == 2             \* cache operations started in one run
MaxTicks == 2           \* clock advances in one cache run

\* ---- CACHE_TTL, in seconds ----
MAINTAINER == 3600
BRANCHES == 1800
USER_PROFILE == 600
REPO_STATS == 300

\* ---- GITHUB_API ----
PER_PAGE == 100
MAX_PAGES == 5
MAX_PRS == 500

TIME_FILTERS == {"2w", "1m", "3m", "6m", "all"}

(***************************************************************************)
(* DateUtils                                                               *)
(***************************************************************************)
getStartDate(filter, t) ==
    CASE filter = "2w" -> t - 14 * Day
      [] filter = "1m" -> t - 30 * Day
      [] filter = "3m" -> t - 90 * Day
      [] filter = "6m" -> t - 180 * Day
      [] filter = "all" -> 0
      [] OTHER -> t - 30 * Day

\* toISOString().split("T")[0]: the UTC calendar day of an instant, as the
\* number of the day since 1970-01-01.
toDateString(t) == t \div Day

\* A time zone: standard offset from UTC, and the interval of instants
\* [dstFrom, dstTo) during which clocks are one hour ahead.
tzOffset(z, t) == z.std + (IF z.dstFrom <= t /\ t < z.dstTo THEN Hour ELSE 0)

LocalTime(z, t) == t + tzOffset(z, t)

\* ECMAScript UTC(t_local): a local time that occurs twice or not at all is
\* read with the offset in force before the transition.
UTCFromLocal(z, l) ==
    LET tDst == l - z.std - Hour
        tStd == l - z.std
    IN IF tzOffset(z, tDst) = z.std + Hour THEN tDst ELSE tStd

\* currentDate.setDate(currentDate.getDate() + 1): one calendar day later
\* at the same local wall-clock time.
setNextDate(z, t) == UTCFromLocal(z, LocalTime(z, t) + Day)

\* The values currentDate takes in the loop of generateDateRange: n
\* successive days starting at t.  The orbit is built by halves, so that
\* the evaluation stays shallow for the 180-day window.
RECURSIVE DateOrbit(_, _, _)
DateOrbit(z, t, n) ==
    IF n <= 0 THEN <<>>
    ELSE IF n = 1 THEN <<t>>
    ELSE LET h == n \div 2
             left == DateOrbit(z, t, h)
         IN left \o DateOrbit(z, setNextDate(z, left[h]), n - h)

\* while (currentDate <= endDate) { dates.push(...); setDate(+1) }: a pass
\* advances currentDate by 23 to 25 hours, so the passes are the leading
\* elements of the orbit that are <= endDate.
generateDateRange(filter, t, z) ==
    LET startDate == getStartDate(filter, t)
        endDate == t
        most == (endDate - startDate) \div (23 * Hour) + 1
        passes == SelectSeq(DateOrbit(z, startDate, most),
                            LAMBDA c : c <= endDate)
    IN [i \in 1..Len(passes) |-> toDateString(passes[i])]

(***************************************************************************)
(* Statistics aggregator (GitHubService)                                   *)
(***************************************************************************)
NewStats(pr, maintainers) ==
    [username |-> pr.login, totalPRs |-> 0, mergedPRs |-> 0, openPRs |-> 0,
     closedPRs |-> 0, isMaintainer |-> pr.login \in maintainers,
     totalAdditions |-> 0, totalDeletions |-> 0]

\* mutants of CountPR
CountPRBothBuckets(s, pr) ==
    LET s1 == [s EXCEPT !.totalPRs = @ + 1,
                        !.totalAdditions = @ + pr.additions,
                        !.totalDeletions = @ + pr.deletions]
        s2 == IF pr.merged THEN [s1 EXCEPT !.mergedPRs = @ + 1] ELSE s1
    IN IF pr.state = "open" THEN [s2 EXCEPT !.openPRs = @ + 1]
       ELSE IF pr.merged THEN s2 ELSE [s2 EXCEPT !.closedPRs = @ + 1]

CountPROpenFirst(s, pr) ==
    LET s1 == [s EXCEPT !.totalPRs = @ + 1,
                        !.totalAdditions = @ + pr.additions,
                        !.totalDeletions = @ + pr.deletions]
    IN IF pr.state = "open" THEN [s1 EXCEPT !.openPRs = @ + 1]
       ELSE IF pr.merged THEN [s1 EXCEPT !.mergedPRs = @ + 1]
       ELSE [s1 EXCEPT !.closedPRs = @ + 1]

\* the body of the rollup loop after the entry exists
CountPR(s, pr) ==
    LET s1 == [s EXCEPT !.totalPRs = @ + 1,
                        !.totalAdditions = @ + pr.additions,
                        !.totalDeletions = @ + pr.deletions]
    IN IF pr.merged THEN [s1 EXCEPT !.mergedPRs = @ + 1]
       ELSE IF pr.state = "open" THEN [s1 EXCEPT !.openPRs = @ + 1]
       ELSE [s1 EXCEPT !.closedPRs = @ + 1]

\* statsMap is a Map: a sequence of entries in insertion order, one per key
RollupStep(pr, maintainers, statsMap) ==
    LET withKey == IF \E i \in DOMAIN statsMap :
                          statsMap[i].username = pr.login
                   THEN statsMap
                   ELSE Append(statsMap, NewStats(pr, maintainers))
        k == CHOOSE i \in DOMAIN withKey : withKey[i].username = pr.login
    IN [withKey EXCEPT ![k] = CountPR(@, pr)]

\* for (const pr of prs) over prs[lo..hi], in order; the range is walked
\* by halves, the first half to its end before the second (a walk of one
\* PR or more leaves at least one entry), so that the evaluation stays
\* shallow for a 500-PR list
RECURSIVE RollupLoop(_, _, _, _, _)
RollupLoop(prs, maintainers, statsMap, lo, hi) ==
    IF lo > hi THEN statsMap
    ELSE IF lo = hi THEN RollupStep(prs[lo], maintainers, statsMap)
    ELSE LET mid == (lo + hi) \div 2
             left == RollupLoop(prs, maintainers, statsMap, lo, mid)
         IN IF Len(left) = 0 THEN left
            ELSE RollupLoop(prs, maintainers, left, mid + 1, hi)

calculateContributorStats(prs, maintainers) ==
    RollupLoop(prs, maintainers, <<>>, 1, Len(prs))

\* distribution[label] = (distribution[label] || 0) + 1
RECURSIVE LabelLoop(_, _)
LabelLoop(labels, distribution) ==
    IF labels = <<>> THEN distribution
    ELSE LET l == Head(labels)
             old == IF l \in DOMAIN distribution THEN distribution[l] ELSE 0
         IN LabelLoop(Tail(labels),
                      [x \in DOMAIN distribution \cup {l} |->
                          IF x = l THEN old + 1 ELSE distribution[x]])

RECURSIVE calculateLabelDistributionFrom(_, _, _, _)
calculateLabelDistributionFrom(prs, distribution, lo, hi) ==
    IF lo > hi THEN distribution
    ELSE IF lo = hi THEN LabelLoop(prs[lo].labels, distribution)
    ELSE LET mid == (lo + hi) \div 2
             left == calculateLabelDistributionFrom(prs, distribution, lo, mid)
         IN IF DOMAIN left = {}
            THEN calculateLabelDistributionFrom(prs, distribution, mid + 1, hi)
            ELSE calculateLabelDistributionFrom(prs, left, mid + 1, hi)

calculateLabelDistribution(prs) ==
    calculateLabelDistributionFrom(prs, [x \in {} |-> 0], 1, Len(prs))

\* timeline is a Map keyed by date: set() on a key already present keeps
\* the entry's position and replaces its value
TimelineInit(dateRange) ==
    LET idx == [i \in 1..Len(dateRange) |-> i]
        first == SelectSeq(idx, LAMBDA i :
                     \A j \in 1..(i - 1) : dateRange[j] # dateRange[i])
    IN [k \in 1..Len(first) |->
           [date |-> dateRange[first[k]], opened |-> 0, merged |-> 0,
            closed |-> 0]]

BumpOpened(timeline, d) ==
    [i \in DOMAIN timeline |->
        IF timeline[i].date = d THEN [timeline[i] EXCEPT !.opened = @ + 1]
        ELSE timeline[i]]

BumpMerged(timeline, d) ==
    [i \in DOMAIN timeline |->
        IF timeline[i].date = d THEN [timeline[i] EXCEPT !.merged = @ + 1]
        ELSE timeline[i]]

BumpClosed(timeline, d) ==
    [i \in DOMAIN timeline |->
        IF timeline[i].date = d THEN [timeline[i] EXCEPT !.closed = @ + 1]
        ELSE timeline[i]]

\* mutant of TimelineCount: a merged PR is counted as closed as well
TimelineCountMergedAndClosed(timeline, pr) ==
    LET t1 == BumpOpened(timeline, toDateString(pr.createdAt))
        t2 == IF pr.mergedAt # Null
              THEN BumpMerged(t1, toDateString(pr.mergedAt)) ELSE t1
    IN IF pr.closedAt # Null THEN BumpClosed(t2, toDateString(pr.closedAt))
       ELSE t2

\* the body of the loop over prs
TimelineCount(timeline, pr) ==
    LET t1 == BumpOpened(timeline, toDateString(pr.createdAt))
    IN IF pr.mergedAt # Null THEN BumpMerged(t1, toDateString(pr.mergedAt))
       ELSE IF pr.closedAt # Null THEN BumpClosed(t1, toDateString(pr.closedAt))
       ELSE t1

RECURSIVE TimelineLoop(_, _, _, _)
TimelineLoop(prs, timeline, lo, hi) ==
    IF lo > hi THEN timeline
    ELSE IF lo = hi THEN TimelineCount(timeline, prs[lo])
    ELSE LET mid == (lo + hi) \div 2
             left == TimelineLoop(prs, timeline, lo, mid)
         IN IF Len(left) = 0 THEN left
            ELSE TimelineLoop(prs, left, mid + 1, hi)

calculateActivityTimeline(prs, filter, t, z) ==
    TimelineLoop(prs, TimelineInit(generateDateRange(filter, t, z)), 1, Len(prs))

\* mutant of InsertSorted: an entry goes before the entries of equal totalPRs
RECURSIVE InsertSortedTiesReversed(_, _)
InsertSortedTiesReversed(sorted, c) ==
    IF sorted = <<>> THEN <<c>>
    ELSE IF Head(sorted).totalPRs > c.totalPRs
         THEN <<Head(sorted)>> \o InsertSortedTiesReversed(Tail(sorted), c)
         ELSE <<c>> \o sorted

\* contributors.sort((a, b) => b.totalPRs - a.totalPRs): a stable sort
RECURSIVE InsertSorted(_, _)
InsertSorted(sorted, c) ==
    IF sorted = <<>> THEN <<c>>
    ELSE IF Head(sorted).totalPRs >= c.totalPRs
         THEN <<Head(sorted)>> \o InsertSorted(Tail(sorted), c)
         ELSE <<c>> \o sorted

RECURSIVE SortContributors(_, _)
SortContributors(cs, sorted) ==
    IF cs = <<>> THEN sorted
    ELSE SortContributors(Tail(cs), InsertSorted(sorted, Head(cs)))

\* the value fetchRepositoryStats builds after the two fetches
RepositoryStats(prs, maintainers, filter, t, z) ==
    [totalPRs |-> Len(prs),
     contributors |->
         SortContributors(calculateContributorStats(prs, maintainers), <<>>),
     recentPRs |-> SubSeq(prs, 1, IF Len(prs) < 50 THEN Len(prs) ELSE 50),
     labelDistribution |-> calculateLabelDistribution(prs),
     activityTimeline |-> calculateActivityTimeline(prs, filter, t, z)]

(***************************************************************************)
(* JSON.stringify / JSON.parse on the values the cache stores.  A value is *)
(* tagged with its JavaScript type; the JSON text is represented by the    *)
(* tree it denotes.                                                        *)
(***************************************************************************)
JUndefined == [t |-> "undefined"]
JNull == [t |-> "null"]
JNum(n) == [t |-> "number", v |-> n]
JStr(x) == [t |-> "string", v |-> x]
JBool(x) == [t |-> "boolean", v |-> x]
JArr(x) == [t |-> "array", v |-> x]
JObj(x) == [t |-> "object", v |-> x]

\* an undefined array element becomes null, an undefined property is dropped
RECURSIVE ToJSON(_)
ToJSON(v) ==
    CASE v.t = "array" ->
           JArr([i \in DOMAIN v.v |->
                    IF v.v[i].t = "undefined" THEN JNull ELSE ToJSON(v.v[i])])
      [] v.t = "object" ->
           JObj([f \in {g \in DOMAIN v.v : v.v[g].t # "undefined"} |->
                    ToJSON(v.v[f])])
      [] OTHER -> v

JSONStringify(v) == IF v.t = "undefined" THEN JUndefined ELSE [text |-> ToJSON(v)]

JSONParse(x) == x.text

(***************************************************************************)
(* RedisCacheService                                                       *)
(***************************************************************************)
Put(m, k, e) == [x \in DOMAIN m \cup {k} |-> IF x = k THEN e ELSE m[x]]

Remove(m, ks) == [x \in DOMAIN m \ ks |-> m[x]]

EmptyMap == [x \in {} |-> 0]

\* a command sent over an established connection is answered by a store
\* that works and rejected with an error otherwise
CmdOk == redisUp /\ status = "ready"

\* the store drops a key once its TTL has run out
RedisGet(k) ==
    IF k \in DOMAIN redisStore /\ now <= redisStore[k].expiry
    THEN redisStore[k].value ELSE JNull

\* memoryGet: the value, and the Map after the lazy eviction
memoryGet(k) ==
    IF k \notin DOMAIN memoryCache THEN JNull
    ELSE IF now > memoryCache[k].expiry THEN JNull
    ELSE JSONParse(memoryCache[k].value)

memoryAfterGet(k) ==
    IF k \in DOMAIN memoryCache /\ now > memoryCache[k].expiry
    THEN Remove(memoryCache, {k}) ELSE memoryCache

\* get: the value returned (JNull for null), and the Map afterwards
get(k) ==
    IF useMemoryFallback THEN memoryGet(k)
    ELSE IF CmdOk
         THEN (IF RedisGet(k) = JNull THEN JNull ELSE JSONParse(RedisGet(k)))
         ELSE memoryGet(k)

memoryAfterCacheGet(k) ==
    IF useMemoryFallback \/ ~CmdOk THEN memoryAfterGet(k) ELSE memoryCache

\* mutant of NewEntry: the expiry is taken in milliseconds of a TTL in seconds
NewEntryLongLived(v, ttl) ==
    [value |-> JSONStringify(v), expiry |-> now + ttl * 1000]

\* the entry set() stores: the serialized value and the absolute expiry
NewEntry(v, ttl) == [value |-> JSONStringify(v), expiry |-> now + ttl]

\* mutant of setInMemory: a rejected setex drops the value
setInMemoryOnlyFallback == useMemoryFallback

\* set writes the Map in fallback mode and when setex is rejected; it does
\* not write the Map when setex succeeds
setInMemory == useMemoryFallback \/ ~CmdOk

memoryAfterSet(k, v, ttl) ==
    IF setInMemory THEN Put(memoryCache, k, NewEntry(v, ttl)) ELSE memoryCache

\* mutant of redisAfterSet: a key that is present is not overwritten
redisAfterSetIfAbsent(k, v, ttl) ==
    IF ~useMemoryFallback /\ CmdOk /\ k \notin DOMAIN redisStore
    THEN Put(redisStore, k, NewEntry(v, ttl)) ELSE redisStore

\* setex: the entry of the key is replaced as a whole
redisAfterSet(k, v, ttl) ==
    IF ~useMemoryFallback /\ CmdOk
    THEN Put(redisStore, k, NewEntry(v, ttl)) ELSE redisStore

\* delete, flush and deletePattern reach the store only outside the
\* fallback mode, and ignore a rejected command
redisAfterDelete(ks) ==
    IF ~useMemoryFallback /\ CmdOk THEN Remove(redisStore, ks) ELSE redisStore

\* exists
exists(k) ==
    IF useMemoryFallback
    THEN k \in DOMAIN memoryCache /\ now <= memoryCache[k].expiry
    ELSE IF CmdOk THEN k \in DOMAIN redisStore /\ now <= redisStore[k].expiry
         ELSE FALSE

\* what the in-process store alone answers to exists
memoryExists(k) == k \in DOMAIN memoryCache /\ now <= memoryCache[k].expiry

\* a client command was sent and rejected
TransportError == ~useMemoryFallback /\ ~CmdOk

\* a command sent while the client is connecting waits in the client's
\* queue for the end of the attempt: an operation is answered in fallback
\* mode (no command is sent) or once the attempt is over
CommandsAnswered == useMemoryFallback \/ status # "connecting"

\* the operation sends a command and the store answers it
CommandSent == ~useMemoryFallback /\ CmdOk

\* ---- the keys and values of the cache runs ----
RepoKey == "repo:o:r:all:2w"
UserKey == "user:u:2w"
Keys == {RepoKey, UserKey}

TTLOf(k) == IF k = RepoKey THEN REPO_STATS ELSE USER_PROFILE

\* two snapshots of the aggregate a query computes
CacheValues == {JObj([totalPRs |-> JNum(n), bio |-> JNull]) : n \in {1, 2}}

Patterns == {"repo:*", "*"}

\* new RegExp("^" + pattern.replace(/\*/g, ".*") + "$").test(key)
PatternMatches(pattern, k) == pattern = "*" \/ (pattern = "repo:*" /\ k = RepoKey)

Callers == {"c1", "c2"}

Idle == [pc |-> "idle", key |-> RepoKey]

NoRet == [op |-> "none", key |-> RepoKey, kind |-> "none", value |-> JNull]

\* the state after the constructor: the client is connecting, both stores
\* are empty
InitCacheState ==
    /\ redisUp \in BOOLEAN
    /\ status = "connecting"
    /\ retryAttempts = 0
    /\ isConnected = FALSE
    /\ useMemoryFallback = FALSE
    /\ redisStore = EmptyMap
    /\ memoryCache = EmptyMap
    /\ call = [c \in Callers |-> Idle]
    /\ ret = NoRet
    /\ written = EmptyMap
    /\ deleted = {}
    /\ storeAnswered = FALSE
    /\ ops = 0

\* ---- the client's connection ----
\* "connect" handler
ConnectOk ==
    /\ status = "connecting"
    /\ redisUp
    /\ status' = "ready"
    /\ retryAttempts' = 0
    /\ isConnected' = TRUE
    /\ useMemoryFallback' = FALSE
    /\ UNCHANGED <<redisUp, redisStore, memoryCache, call, ret, written, deleted,
                   storeAnswered, ops, now, aggVars, fetchVars>>

\* mutant of retryStrategy: the client never gives up
retryStrategyForever(times) == "retry"

\* retryStrategy(times): "stop" for null, "retry" for a delay
retryStrategy(times) == IF times >= 3 THEN "stop" ELSE "retry"

\* a connection attempt fails: "error" and "close" handlers, the rejected
\* connect() promise, then retryStrategy
ConnectFail ==
    /\ status = "connecting"
    /\ ~redisUp
    /\ isConnected' = FALSE
    /\ useMemoryFallback' = TRUE
    /\ retryAttempts' = retryAttempts + 1
    /\ status' = IF retryStrategy(retryAttempts + 1) = "stop"
                 THEN "end" ELSE "connecting"
    /\ UNCHANGED <<redisUp, redisStore, memoryCache, call, ret, written, deleted,
                   storeAnswered, ops, now, aggVars, fetchVars>>

\* an established connection breaks: "close" handler, preceded by the
\* "error" handler when the socket reports an error; the client reconnects
ConnectionLost ==
    /\ status = "ready"
    /\ ~redisUp
    /\ \E withError \in BOOLEAN :
          useMemoryFallback' = (useMemoryFallback \/ withError)
    /\ isConnected' = FALSE
    /\ status' = "connecting"
    /\ UNCHANGED <<redisUp, retryAttempts, redisStore, memoryCache, call, ret,
                   written, deleted, storeAnswered, ops, now, aggVars, fetchVars>>

\* ---- the environment ----
RedisDown ==
    /\ redisUp
    /\ redisUp' = FALSE
    /\ UNCHANGED <<status, retryAttempts, isConnected, useMemoryFallback,
                   redisStore, memoryCache, call, ret, written, deleted, storeAnswered,
                   ops, now, aggVars, fetchVars>>

RedisUp ==
    /\ ~redisUp
    /\ redisUp' = TRUE
    /\ UNCHANGED <<status, retryAttempts, isConnected, useMemoryFallback,
                   redisStore, memoryCache, call, ret, written, deleted,
                   storeAnswered, ops, now,
                   aggVars, fetchVars>>

Tick ==
    /\ now < MaxTicks * REPO_STATS
    /\ now' = now + REPO_STATS
    /\ UNCHANGED <<cacheVars, aggVars, fetchVars>>

\* ---- the operations ----
\* the callers other than c that are suspended in fetchFn for key k
Computing(c, k) ==
    {d \in Callers \ {c} : call[d].pc = "computing" /\ call[d].key = k}

\* the history entry of a set() on key k that returns now
Written(k, v, by, c) ==
    [value |-> v, expiry |-> now + TTLOf(k), by |-> by,
     pending |-> Computing(c, k),
     raced |-> (by = "getOrFetch" /\ k \in DOMAIN written
                  /\ c \in written[k].pending),
     before |-> IF k \in DOMAIN written THEN written[k].value ELSE JNull]

CacheGet(k) ==
    /\ ops < MaxOps
    /\ ops' = ops + 1
    /\ ret' = [op |-> "get", key |-> k, kind |-> "value", value |-> get(k)]
    /\ memoryCache' = memoryAfterCacheGet(k)
    /\ CommandsAnswered
    /\ storeAnswered' = (storeAnswered \/ CommandSent)
    /\ UNCHANGED <<connVars, redisStore, call, written, deleted, now,
                   aggVars, fetchVars>>

CacheSet(k, v) ==
    /\ ops < MaxOps
    /\ ops' = ops + 1
    /\ memoryCache' = memoryAfterSet(k, v, TTLOf(k))
    /\ redisStore' = redisAfterSet(k, v, TTLOf(k))
    /\ written' = Put(written, k, Written(k, v, "set", "none"))
    /\ deleted' = deleted \ {k}
    /\ ret' = [op |-> "set", key |-> k, kind |-> "void", value |-> v]
    /\ CommandsAnswered
    /\ storeAnswered' = (storeAnswered \/ CommandSent)
    /\ UNCHANGED <<connVars, call, now, aggVars, fetchVars>>

CacheDelete(k) ==
    /\ ops < MaxOps
    /\ ops' = ops + 1
    /\ memoryCache' = Remove(memoryCache, {k})
    /\ redisStore' = redisAfterDelete({k})
    /\ written' = Remove(written, {k})
    /\ deleted' = deleted \cup {k}
    /\ ret' = [op |-> "delete", key |-> k, kind |-> "void", value |-> JNull]
    /\ CommandsAnswered
    /\ storeAnswered' = (storeAnswered \/ CommandSent)
    /\ UNCHANGED <<connVars, call, now, aggVars, fetchVars>>

CacheExists(k) ==
    /\ ops < MaxOps
    /\ ops' = ops + 1
    /\ ret' = [op |-> "exists", key |-> k, kind |-> "bool",
               value |-> IF exists(k) THEN JNum(1) ELSE JNum(0)]
    /\ CommandsAnswered
    /\ storeAnswered' = (storeAnswered \/ CommandSent)
    /\ UNCHANGED <<connVars, redisStore, memoryCache, call, written, deleted,
                   now, aggVars, fetchVars>>

CacheFlush ==
    /\ ops < MaxOps
    /\ ops' = ops + 1
    /\ memoryCache' = EmptyMap
    /\ redisStore' = redisAfterDelete(DOMAIN redisStore)
    /\ written' = EmptyMap
    /\ deleted' = deleted
    /\ ret' = [op |-> "flush", key |-> RepoKey, kind |-> "void", value |-> JNull]
    /\ CommandsAnswered
    /\ storeAnswered' = (storeAnswered \/ CommandSent)
    /\ UNCHANGED <<connVars, call, now, aggVars, fetchVars>>

CacheDeletePattern(pattern) ==
    LET inMemory == {k \in DOMAIN memoryCache : PatternMatches(pattern, k)}
        inRedis == IF ~useMemoryFallback /\ CmdOk
                   THEN {k \in DOMAIN redisStore : PatternMatches(pattern, k)
                            /\ now <= redisStore[k].expiry}
                   ELSE {}
    IN /\ ops < MaxOps
       /\ ops' = ops + 1
       /\ memoryCache' = Remove(memoryCache, inMemory)
       /\ redisStore' = redisAfterDelete(inRedis)
       /\ written' = Remove(written, {k \in Keys : PatternMatches(pattern, k)})
       /\ deleted' = deleted
       /\ ret' = [op |-> "deletePattern", key |-> RepoKey, kind |-> "count",
                  value |-> JNum(Cardinality(inMemory) + Cardinality(inRedis))]
       /\ CommandsAnswered
       /\ storeAnswered' = (storeAnswered \/ CommandSent)
       /\ UNCHANGED <<connVars, call, now, aggVars, fetchVars>>

\* getOrFetch up to the await of fetchFn
GetOrFetchBegin(c, k) ==
    /\ call[c].pc = "idle"
    /\ ops < MaxOps
    /\ ops' = ops + 1
    /\ memoryCache' = memoryAfterCacheGet(k)
    /\ IF get(k) # JNull
       THEN /\ ret' = [op |-> "getOrFetch", key |-> k, kind |-> "hit",
                       value |-> get(k)]
            /\ call' = call
       ELSE /\ call' = [call EXCEPT ![c] = [pc |-> "computing", key |-> k]]
            /\ ret' = ret
    /\ CommandsAnswered
    /\ storeAnswered' = (storeAnswered \/ CommandSent)
    /\ UNCHANGED <<connVars, redisStore, written, deleted, now, aggVars, fetchVars>>

\* fetchFn resolves with data: set, then return data
FetchFnResolve(c, v) ==
    LET k == call[c].key
    IN /\ call[c].pc = "computing"
       /\ call' = [call EXCEPT ![c] = Idle]
       /\ memoryCache' = memoryAfterSet(k, v, TTLOf(k))
       /\ redisStore' = redisAfterSet(k, v, TTLOf(k))
       /\ written' = Put(written, k, Written(k, v, "getOrFetch", c))
       /\ deleted' = deleted \ {k}
       /\ ret' = [op |-> "getOrFetch", key |-> k, kind |-> "computed",
                  value |-> v]
       /\ CommandsAnswered
       /\ storeAnswered' = (storeAnswered \/ CommandSent)
       /\ UNCHANGED <<connVars, ops, now, aggVars, fetchVars>>

\* fetchFn rejects: getOrFetch rejects with the same error, nothing is set
FetchFnReject(c) ==
    /\ call[c].pc = "computing"
    /\ call' = [call EXCEPT ![c] = Idle]
    /\ ret' = [op |-> "getOrFetch", key |-> call[c].key, kind |-> "threw",
               value |-> JNull]
    /\ written' = [k \in DOMAIN written |->
                      [written[k] EXCEPT !.pending = @ \ {c}]]
    /\ UNCHANGED <<connVars, redisStore, memoryCache, deleted, storeAnswered,
                   ops, now, aggVars, fetchVars>>

(***************************************************************************)
(* GitHubUrlParser.  A name or a URL is the sequence of its characters.    *)
(***************************************************************************)
\* the text of a sequence of characters
RECURSIVE Str(_)
Str(chars) == IF chars = <<>> THEN "" ELSE Head(chars) \o Str(Tail(chars))

\* [a-zA-Z0-9]
Alnum ==
    {"a", "b", "c", "d", "e", "f", "g", "h", "i", "j", "k", "l", "m", "n",
     "o", "p", "q", "r", "s", "t", "u", "v", "w", "x", "y", "z",
     "A", "B", "C", "D", "E", "F", "G", "H", "I", "J", "K", "L", "M", "N",
     "O", "P", "Q", "R", "S", "T", "U", "V", "W", "X", "Y", "Z",
     "0", "1", "2", "3", "4", "5", "6", "7", "8", "9"}

\* /^[a-zA-Z0-9](?:[a-zA-Z0-9-]*[a-zA-Z0-9])?$/
ownerPattern(owner) ==
    /\ Len(owner) >= 1
    /\ owner[1] \in Alnum
    /\ owner[Len(owner)] \in Alnum
    /\ \A i \in DOMAIN owner : owner[i] \in Alnum \cup {"-"}

\* /^[a-zA-Z0-9._-]+$/
repoPattern(repo) ==
    /\ Len(repo) >= 1
    /\ \A i \in DOMAIN repo : repo[i] \in Alnum \cup {".", "_", "-"}

\* validateNames(owner, repo): TRUE when it returns, FALSE when it throws
\* a ValidationError
validateNames(owner, repo) ==
    /\ ownerPattern(owner)
    /\ repoPattern(repo)
    /\ ~(Len(owner) > 39)
    /\ ~(Len(repo) > 100)

\* input.trim(), for inputs whose only white space is the space
RECURSIVE trimStart(_)
trimStart(chars) ==
    IF chars # <<>> /\ Head(chars) = " " THEN trimStart(Tail(chars)) ELSE chars

RECURSIVE trimEnd(_)
trimEnd(chars) ==
    IF chars # <<>> /\ chars[Len(chars)] = " "
    THEN trimEnd(SubSeq(chars, 1, Len(chars) - 1)) ELSE chars

trim(chars) == trimEnd(trimStart(chars))

StartsWith(chars, prefix) ==
    Len(chars) >= Len(prefix) /\ SubSeq(chars, 1, Len(prefix)) = prefix

EndsWith(chars, suffix) ==
    /\ Len(chars) >= Len(suffix)
    /\ SubSeq(chars, Len(chars) - Len(suffix) + 1, Len(chars)) = suffix

DotGit == <<".", "g", "i", "t">>

\* trimmedInput.replace(/\.git$/, "")
removeDotGit(chars) ==
    IF EndsWith(chars, DotGit)
    THEN SubSeq(chars, 1, Len(chars) - Len(DotGit)) ELSE chars

\* the pieces of chars between its slashes
RECURSIVE SplitAtSlash(_, _)
SplitAtSlash(chars, piece) ==
    IF chars = <<>> THEN <<piece>>
    ELSE IF Head(chars) = "/"
         THEN <<piece>> \o SplitAtSlash(Tail(chars), <<>>)
         ELSE SplitAtSlash(Tail(chars), Append(piece, Head(chars)))

Https == <<"h", "t", "t", "p", "s", ":", "/", "/">>
Http == <<"h", "t", "t", "p", ":", "/", "/">>
Www == <<"w", "w", "w", ".">>
GithubCom == <<"g", "i", "t", "h", "u", "b", ".", "c", "o", "m", "/">>
ApiRepos == <<"a", "p", "i", ".">> \o GithubCom
                \o <<"r", "e", "p", "o", "s", "/">>

\* PATTERNS, in the order in which parse tries them: the texts a match may
\* start with, and whether a slash may follow the second name.  The inputs
\* of the runs are in lower case, on which the i flag has no effect.
PATTERNS ==
    <<[name |-> "fullUrl",
       starts |-> {Https \o GithubCom, Http \o GithubCom,
                   Https \o Www \o GithubCom, Http \o Www \o GithubCom},
       slash |-> TRUE],
      [name |-> "shortUrl",
       starts |-> {GithubCom, Www \o GithubCom}, slash |-> TRUE],
      [name |-> "simple", starts |-> {<<>>}, slash |-> FALSE],
      [name |-> "apiUrl",
       starts |-> {Https \o ApiRepos, Http \o ApiRepos}, slash |-> TRUE]>>

\* ([^\/]+)\/([^\/]+)\/?$ on what follows the start of a pattern
TwoNames(rest, slash) ==
    LET pieces == SplitAtSlash(rest, <<>>)
    IN /\ Len(pieces) >= 2
       /\ pieces[1] # <<>> /\ pieces[2] # <<>>
       /\ \/ Len(pieces) = 2
          \/ slash /\ Len(pieces) = 3 /\ pieces[3] = <<>>

\* cleanInput.match(pattern)
Matches(chars, pattern) ==
    \E start \in pattern.starts :
        /\ StartsWith(chars, start)
        /\ TwoNames(SubSeq(chars, Len(start) + 1, Len(chars)), pattern.slash)

MatchOf(chars, pattern) ==
    LET start == CHOOSE st \in pattern.starts :
                     /\ StartsWith(chars, st)
                     /\ TwoNames(SubSeq(chars, Len(st) + 1, Len(chars)),
                                 pattern.slash)
        pieces == SplitAtSlash(SubSeq(chars, Len(start) + 1, Len(chars)), <<>>)
    IN [owner |-> pieces[1], repo |-> pieces[2]]

\* parse(input): the names of the first pattern that matches, when they
\* pass validateNames; ok is FALSE when parse throws a ValidationError
parse(input) ==
    LET cleanInput == removeDotGit(trim(input))
        matching == {i \in DOMAIN PATTERNS : Matches(cleanInput, PATTERNS[i])}
        first == CHOOSE i \in matching : \A j \in matching : i <= j
        names == MatchOf(cleanInput, PATTERNS[first])
    IN IF input = <<>> \/ matching = {}
       THEN [ok |-> FALSE, owner |-> <<>>, repo |-> <<>>]
       ELSE IF validateNames(names.owner, names.repo)
            THEN [ok |-> TRUE, owner |-> names.owner, repo |-> names.repo]
            ELSE [ok |-> FALSE, owner |-> <<>>, repo |-> <<>>]

(***************************************************************************)
(* GitHubService: the queries against the GitHub API                       *)
(***************************************************************************)
\* ---- CACHE_KEYS ----
repoStats(owner, repo, branch, filter) ==
    "repo:" \o Str(owner) \o ":" \o Str(repo) \o ":"
        \o (IF branch = "" THEN "all" ELSE branch) \o ":" \o filter

userStats(username, filter) == "user:" \o Str(username) \o ":" \o filter

maintainersKey(owner, repo) ==
    "maintainers:" \o Str(owner) \o ":" \o Str(repo)

branchesKey(owner, repo) == "branches:" \o Str(owner) \o ":" \o Str(repo)

\* CacheService.generateKey("branches", owner, repo) of the browser side
generateKey(kind, owner, repo) ==
    "gsoc_cache_" \o "v1" \o "_" \o kind \o "_" \o Str(owner) \o "_"
        \o Str(repo)

\* ---- errors ----
\* new Date(NaN): what parseInt gives for a header that is not there
InvalidDate == -2

\* RateLimitError: the constructor formats resetAt with toISOString(), which
\* throws a RangeError on an invalid date
RateLimitError(resetAt) ==
    IF resetAt = InvalidDate
    THEN [class |-> "RangeError", status |-> Null, resetAt |-> Null]
    ELSE [class |-> "RateLimitError", status |-> 429, resetAt |-> resetAt]

GitHubApiError(statusCode) ==
    [class |-> "GitHubApiError", status |-> statusCode, resetAt |-> Null]

\* handleGitHubError(error): the error it throws.  A raw error carries the
\* HTTP status (Null when the call failed without a response, as a timeout
\* does) and the two rate-limit headers (Null when absent).
handleGitHubError(error) ==
    IF error.status = 403 /\ error.remaining = "0"
    THEN RateLimitError(IF error.reset = Null THEN InvalidDate
                        ELSE error.reset)
    ELSE IF error.status = 404 THEN GitHubApiError(404)
    ELSE IF error.status = 401 THEN GitHubApiError(401)
    ELSE GitHubApiError(IF error.status = Null THEN 500 ELSE error.status)

\* request() of the browser side: the error it throws for a response that
\* is not ok; a call that fails without a response rejects in fetch()
\* itself with a TypeError
request(error) ==
    IF error.status = Null
    THEN [class |-> "TypeError", status |-> Null, resetAt |-> Null]
    ELSE IF error.status = 403 /\ error.remaining = "0"
    THEN RateLimitError(IF error.reset = Null THEN now ELSE error.reset)
    ELSE IF error.status = 404 THEN GitHubApiError(404)
    ELSE GitHubApiError(error.status)

\* the raw errors of the runs: rate limit with and without the reset header,
\* a plain 403, not found, unauthorized, server error, timeout
RawErrors ==
    {[status |-> 403, remaining |-> "0", reset |-> now + Hour],
     [status |-> 403, remaining |-> "0", reset |-> Null],
     [status |-> 403, remaining |-> "59", reset |-> now + Hour],
     [status |-> 404, remaining |-> "59", reset |-> now + Hour],
     [status |-> 401, remaining |-> "", reset |-> Null],
     [status |-> 500, remaining |-> "", reset |-> Null],
     [status |-> Null, remaining |-> "", reset |-> Null]}

\* ---- the items of the API ----
\* item i of page p of the pulls listing; old items were created 16 days
\* before now, the others 13 days before now
PullItem(p, i, old) ==
    LET created == IF old THEN now - 16 * Day ELSE now - 13 * Day
        kind == i % 3
    IN [number |-> (p - 1) * PER_PAGE + i,
        state |-> IF kind = 0 THEN "open" ELSE "closed",
        created_at |-> created,
        merged_at |-> IF kind = 1 THEN created + Hour ELSE Null,
        closed_at |-> IF kind = 0 THEN Null ELSE created + Hour,
        login |-> IF i % 2 = 0 THEN "alice" ELSE "bob",
        labels |-> IF i % 50 = 0 THEN <<"bug">> ELSE <<>>,
        additions |-> 1, deletions |-> 0]

\* a page of the listing: its length and the positions of its old items
PageOf(p, shape) ==
    [i \in 1..shape.len |-> PullItem(p, i, i \in shape.old)]

\* the pages the API answers with: empty, one item, a full page; all items
\* recent, an old item in the middle (items in any order), an old last item
PageShapes ==
    {[len |-> 0, old |-> {}],
     [len |-> 1, old |-> {}],
     [len |-> 1, old |-> {1}],
     [len |-> PER_PAGE, old |-> {}],
     [len |-> PER_PAGE, old |-> {PER_PAGE \div 2}],
     [len |-> PER_PAGE, old |-> {PER_PAGE}]}

mapPullRequest(pr) ==
    [number |-> pr.number, state |-> pr.state,
     merged |-> pr.merged_at # Null,
     createdAt |-> pr.created_at, mergedAt |-> pr.merged_at,
     closedAt |-> pr.closed_at, login |-> pr.login, labels |-> pr.labels,
     additions |-> pr.additions, deletions |-> pr.deletions]

\* item i of page p of the issue search; two items in five have no
\* pull_request.merged_at field
SearchItem(p, i) ==
    LET created == now - 13 * Day
        kind == i % 5
    IN [number |-> (p - 1) * 100 + i,
        state |-> IF kind \in {0, 4} THEN "open" ELSE "closed",
        created_at |-> created,
        hasMergedAt |-> kind \notin {3, 4},
        merged_at |-> IF kind = 1 THEN created + Hour ELSE Null,
        closed_at |-> IF kind \in {0, 4} THEN Null ELSE created + Hour,
        labels |-> <<>>]

SearchPageOf(p, len) == [i \in 1..len |-> SearchItem(p, i)]

\* prs.push({...}) of fetchUserStats: merged_at !== null is true of a
\* field that is not there, and merged_at || null is null for it
mapSearchItem(item, username) ==
    [number |-> item.number, state |-> item.state,
     merged |-> (~item.hasMergedAt \/ item.merged_at # Null),
     createdAt |-> item.created_at,
     mergedAt |-> IF item.hasMergedAt THEN item.merged_at ELSE Null,
     closedAt |-> item.closed_at, login |-> username, labels |-> item.labels,
     additions |-> 0, deletions |-> 0]

\* totalStats of fetchUserStats
totalStats(prs) ==
    [totalPRs |-> Len(prs),
     mergedPRs |-> Len(SelectSeq(prs, LAMBDA pr : pr.merged)),
     openPRs |-> Len(SelectSeq(prs, LAMBDA pr : pr.state = "open")),
     closedPRs |-> Len(SelectSeq(prs, LAMBDA pr :
                                   pr.state = "closed" /\ ~pr.merged))]

\* ---- the loops ----
\* mutant of LoopGuard: the page cap is not tested
LoopGuardNoPageCap(page, collected) == collected < MAX_PRS

\* while (currentPage <= MAX_PAGES && allPRs.length < MAX_PRS)
LoopGuard(page, collected) == page <= MAX_PAGES /\ collected < MAX_PRS

\* mutant of filteredPRs: every item of the page is kept
filteredPRsUnfiltered(data, startDate) ==
    [i \in DOMAIN data |-> mapPullRequest(data[i])]

\* the part of a page fetchPullRequests keeps
filteredPRs(data, startDate) ==
    LET kept == SelectSeq(data, LAMBDA pr : pr.created_at >= startDate)
    IN [i \in DOMAIN kept |-> mapPullRequest(kept[i])]

\* mutant of NextPullsPage: the date of the last item is not tested
NextPullsPageIgnoresOldest(data, startDate, page, collected) ==
    /\ Len(data) # 0
    /\ ~(Len(data) < PER_PAGE)
    /\ LoopGuard(page + 1, collected)

\* the loop goes on to the next page after this one
NextPullsPage(data, startDate, page, collected) ==
    /\ Len(data) # 0
    /\ ~(Len(data) < PER_PAGE)
    /\ ~(data[Len(data)].created_at < startDate)
    /\ LoopGuard(page + 1, collected)

\* while (page <= 3) { ...; if (data.length < 100) break; page++ }
NextBranchesPage(len, page) == ~(len < 100) /\ page + 1 <= 3

\* mutant of NextSearchPage: a short page does not end the loop
NextSearchPageIgnoresShort(len, page, collected) ==
    /\ len # 0
    /\ page + 1 <= 5 /\ collected < 500

\* while (page <= 5 && prs.length < 500) { ... } of fetchUserStats, and of
\* searchUserPullRequests of the browser side
NextSearchPage(len, page, collected) ==
    /\ len # 0
    /\ ~(len < 100)
    /\ page + 1 <= 5 /\ collected < 500

\* ---- the values handed to the cache and to the caller ----
DateValue(t) == IF t = Null THEN JNull ELSE JStr(t)

PRValue(pr) ==
    JObj([number |-> JNum(pr.number), state |-> JStr(pr.state),
          merged |-> JBool(pr.merged), createdAt |-> DateValue(pr.createdAt),
          mergedAt |-> DateValue(pr.mergedAt),
          closedAt |-> DateValue(pr.closedAt), login |-> JStr(pr.login),
          labels |-> JArr([i \in DOMAIN pr.labels |-> JStr(pr.labels[i])]),
          additions |-> JNum(pr.additions), deletions |-> JNum(pr.deletions)])

PRListValue(prs) == JArr([i \in DOMAIN prs |-> PRValue(prs[i])])

ContributorValue(c) ==
    JObj([username |-> JStr(c.username), totalPRs |-> JNum(c.totalPRs),
          mergedPRs |-> JNum(c.mergedPRs), openPRs |-> JNum(c.openPRs),
          closedPRs |-> JNum(c.closedPRs),
          isMaintainer |-> JBool(c.isMaintainer),
          totalAdditions |-> JNum(c.totalAdditions),
          totalDeletions |-> JNum(c.totalDeletions)])

DataPointValue(d) ==
    JObj([date |-> JStr(d.date), opened |-> JNum(d.opened),
          merged |-> JNum(d.merged), closed |-> JNum(d.closed)])

StatsValue(s) ==
    JObj([totalPRs |-> JNum(s.totalPRs),
          contributors |-> JArr([i \in DOMAIN s.contributors |->
                                    ContributorValue(s.contributors[i])]),
          recentPRs |-> PRListValue(s.recentPRs),
          labelDistribution |->
              JObj([l \in DOMAIN s.labelDistribution |->
                       JNum(s.labelDistribution[l])]),
          activityTimeline |-> JArr([i \in DOMAIN s.activityTimeline |->
                                   DataPointValue(s.activityTimeline[i])])])

NamesValue(names) == JArr([i \in DOMAIN names |-> JStr(names[i])])

UserStatsValue(username, prs) ==
    LET t == totalStats(prs)
    IN JObj([username |-> JStr(username),
             pullRequests |-> PRListValue(prs),
             totalStats |-> JObj([totalPRs |-> JNum(t.totalPRs),
                                  mergedPRs |-> JNum(t.mergedPRs),
                                  openPRs |-> JNum(t.openPRs),
                                  closedPRs |-> JNum(t.closedPRs)]),
             maintainerRepos |-> JArr(<<>>)])

\* ---- CacheService of the browser side ----
\* get: the data of an entry that has not expired, else null
storageGet(k) ==
    IF k \notin DOMAIN localStorage THEN JNull
    ELSE LET entry == JSONParse(localStorage[k])
         IN IF now > entry.v.expiresAt.v THEN JNull ELSE entry.v.data

storageAfterGet(k) ==
    IF k \in DOMAIN localStorage
          /\ now > JSONParse(localStorage[k]).v.expiresAt.v
    THEN Remove(localStorage, {k}) ELSE localStorage

storageAfterSet(k, data, ttl) ==
    Put(localStorage, k,
        JSONStringify(JObj([data |-> data, cachedAt |-> JNum(now),
                            expiresAt |-> JNum(now + ttl)])))

\* ---- the queries of the runs ----
Owner == <<"o">>
Repo == <<"r">>
Username == <<"u">>

\* a query: the operation of the service, the handler it was called from,
\* and its arguments
Query(op, side, via, owner, repo, branch, username, filter, page) ==
    [op |-> op, side |-> side, via |-> via, owner |-> owner, repo |-> repo,
     branch |-> branch, username |-> username, filter |-> filter,
     page |-> page]

NoQuery == Query("none", "backend", "none", <<>>, <<>>, "", <<>>, "all", 1)

NoError == [class |-> "none", status |-> Null, resetAt |-> Null]

NoOutcome == [kind |-> "none", value |-> JNull, error |-> NoError]

\* the cache key the running query reads and fills
QueryKey ==
    CASE query.op = "repoStats" ->
             repoStats(query.owner, query.repo, query.branch, query.filter)
      [] query.op = "userStats" -> userStats(query.username, query.filter)
      [] query.op = "branches" /\ query.side = "backend" ->
             branchesKey(query.owner, query.repo)
      [] query.op = "branches" /\ query.side = "frontend" ->
             generateKey("branches", query.owner, query.repo)
      [] OTHER -> ""

\* the requests that are served side by side
Requesters == {"r1", "r2"}

NotServed ==
    [pc |-> "idle", token |-> "none", calls |-> <<>>, maintainers |-> <<>>,
     hit |-> FALSE, source |-> "none", answer |-> NoOutcome]

InitFetchState ==
    /\ query = NoQuery
    /\ fpc = "idle"
    /\ currentPage = 1
    /\ allPRs = <<>>
    /\ branches = <<>>
    /\ maintainersList = <<>>
    /\ localStorage = EmptyMap
    /\ requests = <<>>
    /\ fetched = <<>>
    /\ sent = <<>>
    /\ apiErrors = <<>>
    /\ setLog = {}
    /\ outcome = NoOutcome
    /\ octokit = "none"
    /\ served = [r \in Requesters |-> NotServed]
    /\ cachedAs = EmptyMap

\* the query returns value to its caller
Return(value) ==
    /\ fpc' = "done"
    /\ outcome' = [kind |-> "value", value |-> value, error |-> NoError]

\* the query rejects with error
Throw(error) ==
    /\ fpc' = "done"
    /\ outcome' = [kind |-> "error", value |-> JNull, error |-> error]

\* cacheService.set(k, v, ttl) as the last step of a getOrFetch
CacheFill(k, v, ttl) ==
    /\ CommandsAnswered
    /\ memoryCache' = memoryAfterSet(k, v, ttl)
    /\ redisStore' = redisAfterSet(k, v, ttl)
    /\ setLog' = setLog \cup {k}

Begin(q) ==
    /\ fpc = "idle"
    /\ query = NoQuery
    /\ query' = q

\* what no step of a query changes
queryFrame ==
    <<now, aggVars, connVars, call, ret, written, deleted, storeAnswered, ops,
      sent, octokit, served, cachedAs>>

\* what no step but the answer of pulls.list changes
fetchFrame == <<queryFrame, fetched>>

\* fetchPullRequests up to the first API call
fetchPullRequests(via, owner, repo, branch, filter, page) ==
    /\ Begin(Query("pulls", "backend", via, owner, repo, branch, <<>>, filter,
                   page))
    /\ currentPage' = page
    /\ IF LoopGuard(page, 0)
       THEN fpc' = "pulls" /\ outcome' = outcome
       ELSE Return(<<>>)
    /\ UNCHANGED <<fetchFrame, allPRs, branches, maintainersList,
                   localStorage, requests, apiErrors, setLog, memoryCache,
                   redisStore>>

\* RepositoryController.getPullRequests: fetchPullRequests from a page
GetPullRequests(filter, page) ==
    fetchPullRequests("getPullRequests", Owner, Repo, "", filter, page)

\* fetchRepositoryStats up to the first API call: getOrFetch on the key
fetchRepositoryStats(via, owner, repo, branch, filter) ==
    LET k == repoStats(owner, repo, branch, filter)
    IN /\ Begin(Query("repoStats", "backend", via, owner, repo, branch, <<>>,
                      filter, 1))
       /\ CommandsAnswered
       /\ memoryCache' = memoryAfterCacheGet(k)
       /\ currentPage' = 1
       /\ IF get(k) # JNull
          THEN Return(get(k))
          ELSE fpc' = "pulls" /\ outcome' = outcome
       /\ UNCHANGED <<fetchFrame, allPRs, branches, maintainersList,
                      localStorage, requests, apiErrors, setLog, redisStore>>

FetchRepositoryStats(filter) ==
    fetchRepositoryStats("getStats", Owner, Repo, "", filter)

\* fetchContributors up to the first API call
fetchContributors(via, owner, repo, branch, filter) ==
    /\ Begin(Query("contributors", "backend", via, owner, repo, branch, <<>>,
                   filter, 1))
    /\ currentPage' = 1
    /\ fpc' = "pulls"
    /\ UNCHANGED <<fetchFrame, allPRs, branches, maintainersList,
                   localStorage, requests, apiErrors, setLog, outcome,
                   memoryCache, redisStore>>

\* mutant of AdvancePage: the page counter stays
AdvancePageStays(page) == page

\* currentPage++
AdvancePage(page) == page + 1

\* pulls.list answers with a page
PullsPageOk(shape) ==
    LET data == PageOf(currentPage, shape)
        startDate == getStartDate(query.filter, now)
        collected == IF Len(data) = 0 THEN allPRs
                     ELSE allPRs \o filteredPRs(data, startDate)
    IN /\ fpc = "pulls"
       /\ requests' = Append(requests, [api |-> "pulls", page |-> currentPage])
       /\ fetched' = Append(fetched, shape)
       /\ allPRs' = collected
       /\ IF NextPullsPage(data, startDate, currentPage, Len(collected))
          THEN /\ currentPage' = AdvancePage(currentPage)
               /\ fpc' = "pulls"
               /\ outcome' = outcome
          ELSE /\ currentPage' = currentPage
               /\ IF query.op = "pulls"
                  THEN Return(collected)
                  ELSE fpc' = "maintainers" /\ outcome' = outcome
       /\ UNCHANGED <<queryFrame, query, branches, maintainersList,
                      localStorage, apiErrors, setLog, memoryCache,
                      redisStore>>

\* pulls.list fails: catch, handleGitHubError; the rejection passes through
\* fetchRepositoryStats and its getOrFetch
PullsPageError(error) ==
    /\ fpc = "pulls"
    /\ requests' = Append(requests, [api |-> "pulls", page |-> currentPage])
    /\ apiErrors' = Append(apiErrors, [api |-> "pulls", error |-> error,
                                   thrown |-> handleGitHubError(error)])
    /\ Throw(handleGitHubError(error))
    /\ UNCHANGED <<fetchFrame, query, currentPage, allPRs, branches,
                   maintainersList, localStorage, setLog, memoryCache,
                   redisStore>>

\* ---- the loop of fetchPullRequests with the call and its answer apart ----
\* the loop body reaches await pulls.list({..., page: currentPage}): the
\* call is issued and the function is suspended until it is answered
PullsPageCall ==
    /\ fpc = "pulls"
    /\ Len(sent) = Len(SelectSeq(requests, LAMBDA r : r.api = "pulls"))
    /\ sent' = Append(sent, currentPage)
    /\ UNCHANGED <<now, aggVars, cacheVars, query, fpc, currentPage, allPRs,
                   branches, maintainersList, localStorage, requests,
                   fetched, apiErrors, setLog, outcome, octokit, served,
                   cachedAs>>

PullsPageAwaited ==
    Len(sent) = Len(SelectSeq(requests, LAMBDA r : r.api = "pulls")) + 1

\* the awaited call resolves, and the rest of the loop body runs
PullsPageAnswer(shape) == PullsPageAwaited /\ PullsPageOk(shape)

\* the awaited call rejects
PullsPageReject(error) == PullsPageAwaited /\ PullsPageError(error)

\* fetchMaintainers up to its API call: getOrFetch on the maintainers key
FetchMaintainers ==
    LET k == maintainersKey(query.owner, query.repo)
    IN /\ fpc = "maintainers"
       /\ CommandsAnswered
       /\ memoryCache' = memoryAfterCacheGet(k)
       /\ IF get(k) # JNull
          THEN /\ maintainersList' = [i \in DOMAIN get(k).v |-> get(k).v[i].v]
               /\ fpc' = "aggregate"
          ELSE /\ maintainersList' = maintainersList
               /\ fpc' = "collaborators"
       /\ UNCHANGED <<fetchFrame, query, currentPage, allPRs, branches,
                      localStorage, requests, apiErrors, setLog, outcome,
                      redisStore>>

\* listCollaborators answers: the logins with push or admin permission
CollaboratorsOk(logins) ==
    /\ fpc = "collaborators"
    /\ requests' = Append(requests, [api |-> "collaborators", page |-> 1])
    /\ maintainersList' = logins
    /\ CacheFill(maintainersKey(query.owner, query.repo), NamesValue(logins),
                 MAINTAINER)
    /\ fpc' = "aggregate"
    /\ UNCHANGED <<fetchFrame, query, currentPage, allPRs, branches,
                   localStorage, apiErrors, outcome>>

\* mutant of collaboratorsCatch: the error is classified and raised
collaboratorsRethrow(error) ==
    [kind |-> "error", list |-> <<>>, error |-> handleGitHubError(error)]

\* the catch of fetchMaintainers: the error is logged and [] is returned
collaboratorsCatch(error) == [kind |-> "value", list |-> <<>>, error |-> NoError]

\* listCollaborators fails: the catch returns [], which is cached
CollaboratorsError(error) ==
    LET caught == collaboratorsCatch(error)
    IN /\ fpc = "collaborators"
       /\ requests' = Append(requests, [api |-> "collaborators", page |-> 1])
       /\ apiErrors' = Append(apiErrors, [api |-> "collaborators",
                                          error |-> error,
                                          thrown |-> caught.error])
       /\ IF caught.kind = "value"
          THEN /\ maintainersList' = caught.list
               /\ CacheFill(maintainersKey(query.owner, query.repo),
                            NamesValue(caught.list), MAINTAINER)
               /\ fpc' = "aggregate"
               /\ outcome' = outcome
          ELSE /\ Throw(caught.error)
               /\ UNCHANGED <<maintainersList, memoryCache, redisStore,
                              setLog>>
       /\ UNCHANGED <<fetchFrame, query, currentPage, allPRs, branches,
                      localStorage>>

\* the rest of fetchRepositoryStats: aggregate, set, return
AggregateStats ==
    LET maintainers == {maintainersList[i] : i \in DOMAIN maintainersList}
        data == StatsValue(RepositoryStats(allPRs, maintainers, query.filter,
                                           now, zone))
    IN /\ fpc = "aggregate"
       /\ query.op = "repoStats"
       /\ CacheFill(QueryKey, data, REPO_STATS)
       /\ Return(data)
       /\ UNCHANGED <<fetchFrame, query, currentPage, allPRs, branches,
                      maintainersList, localStorage, requests, apiErrors>>

\* the rest of fetchContributors: the rollup, in the order of the Map
AggregateContributors ==
    LET maintainers == {maintainersList[i] : i \in DOMAIN maintainersList}
        contributors == calculateContributorStats(allPRs, maintainers)
    IN /\ fpc = "aggregate"
       /\ query.op = "contributors"
       /\ Return(JArr([i \in DOMAIN contributors |->
                          ContributorValue(contributors[i])]))
       /\ UNCHANGED <<fetchFrame, query, currentPage, allPRs, branches,
                      maintainersList, localStorage, requests, apiErrors,
                      setLog, memoryCache, redisStore>>

\* fetchBranches of the backend up to the first API call
fetchBranches(via, owner, repo) ==
    LET k == branchesKey(owner, repo)
    IN /\ Begin(Query("branches", "backend", via, owner, repo, "", <<>>,
                      "all", 1))
       /\ CommandsAnswered
       /\ memoryCache' = memoryAfterCacheGet(k)
       /\ currentPage' = 1
       /\ IF get(k) # JNull
          THEN Return(get(k))
          ELSE fpc' = "branches" /\ outcome' = outcome
       /\ UNCHANGED <<fetchFrame, allPRs, branches, maintainersList,
                      localStorage, requests, apiErrors, setLog, redisStore>>

FetchBranches == fetchBranches("getBranches", Owner, Repo)

\* fetchBranches of the browser side up to the first API call
FrontendFetchBranches ==
    LET k == generateKey("branches", Owner, Repo)
    IN /\ Begin(Query("branches", "frontend", "browser", Owner, Repo, "",
                      <<>>, "all", 1))
       /\ localStorage' = storageAfterGet(k)
       /\ currentPage' = 1
       /\ IF storageGet(k) # JNull
          THEN Return(storageGet(k))
          ELSE fpc' = "branches" /\ outcome' = outcome
       /\ UNCHANGED <<fetchFrame, allPRs, branches, maintainersList,
                      requests, apiErrors, setLog, memoryCache, redisStore>>

BranchNames(len) == [i \in 1..len |-> IF i = 1 THEN "main" ELSE "topic"]

\* listBranches answers with a page of len names
BranchesPageOk(len) ==
    LET names == branches \o BranchNames(len)
    IN /\ fpc = "branches"
       /\ requests' = Append(requests,
                             [api |-> "branches", page |-> currentPage])
       /\ branches' = names
       /\ IF NextBranchesPage(len, currentPage)
          THEN /\ currentPage' = currentPage + 1
               /\ fpc' = "branches"
               /\ UNCHANGED <<outcome, setLog, memoryCache, redisStore,
                              localStorage>>
          ELSE /\ currentPage' = currentPage
               /\ Return(NamesValue(names))
               /\ IF query.side = "backend"
                  THEN /\ CacheFill(QueryKey, NamesValue(names), BRANCHES)
                       /\ localStorage' = localStorage
                  ELSE /\ localStorage' =
                             storageAfterSet(QueryKey, NamesValue(names),
                                             BRANCHES)
                       /\ UNCHANGED <<setLog, memoryCache, redisStore>>
       /\ UNCHANGED <<fetchFrame, query, allPRs, maintainersList, apiErrors>>

\* listBranches fails.  Backend: catch, handleGitHubError throws.  Browser
\* side: request() throws, the catch of fetchBranches returns [].
BranchesPageError(error) ==
    /\ fpc = "branches"
    /\ requests' = Append(requests, [api |-> "branches", page |-> currentPage])
    /\ apiErrors' = Append(apiErrors, [api |-> "branches", error |-> error,
                  thrown |-> IF query.side = "backend"
                             THEN handleGitHubError(error)
                             ELSE request(error)])
    /\ IF query.side = "backend"
       THEN Throw(handleGitHubError(error))
       ELSE Return(NamesValue(<<>>))
    /\ UNCHANGED <<fetchFrame, query, currentPage, allPRs, branches,
                   maintainersList, localStorage, setLog, memoryCache,
                   redisStore>>

\* fetchUserStats up to the first API call
fetchUserStats(via, username, filter) ==
    LET k == userStats(username, filter)
    IN /\ Begin(Query("userStats", "backend", via, <<>>, <<>>, "", username,
                      filter, 1))
       /\ CommandsAnswered
       /\ memoryCache' = memoryAfterCacheGet(k)
       /\ currentPage' = 1
       /\ IF get(k) # JNull
          THEN Return(get(k))
          ELSE fpc' = "profile" /\ outcome' = outcome
       /\ UNCHANGED <<fetchFrame, allPRs, branches, maintainersList,
                      localStorage, requests, apiErrors, setLog, redisStore>>

FetchUserStats(filter) == fetchUserStats("getProfile", Username, filter)

\* users.getByUsername answers
ProfileOk ==
    /\ fpc = "profile"
    /\ requests' = Append(requests, [api |-> "profile", page |-> 1])
    /\ fpc' = "search"
    /\ UNCHANGED <<fetchFrame, query, currentPage, allPRs, branches,
                   maintainersList, localStorage, apiErrors, setLog, outcome,
                   memoryCache, redisStore>>

ProfileError(error) ==
    /\ fpc = "profile"
    /\ requests' = Append(requests, [api |-> "profile", page |-> 1])
    /\ apiErrors' = Append(apiErrors, [api |-> "profile", error |-> error,
                                   thrown |-> handleGitHubError(error)])
    /\ Throw(handleGitHubError(error))
    /\ UNCHANGED <<fetchFrame, query, currentPage, allPRs, branches,
                   maintainersList, localStorage, setLog, memoryCache,
                   redisStore>>

\* search.issuesAndPullRequests answers with a page of len items
SearchPageOk(len) ==
    LET items == SearchPageOf(currentPage, len)
        prs == allPRs \o [i \in DOMAIN items |->
                             mapSearchItem(items[i], Str(query.username))]
    IN /\ fpc = "search"
       /\ query.side = "backend"
       /\ requests' = Append(requests, [api |-> "search", page |-> currentPage])
       /\ allPRs' = prs
       /\ IF NextSearchPage(len, currentPage, Len(prs))
          THEN /\ currentPage' = currentPage + 1
               /\ fpc' = "search"
               /\ UNCHANGED <<outcome, setLog, memoryCache, redisStore>>
          ELSE /\ currentPage' = currentPage
               /\ CacheFill(QueryKey, UserStatsValue(Str(query.username), prs),
                            USER_PROFILE)
               /\ Return(UserStatsValue(Str(query.username), prs))
       /\ UNCHANGED <<fetchFrame, query, branches, maintainersList,
                      localStorage, apiErrors>>

SearchPageError(error) ==
    /\ fpc = "search"
    /\ query.side = "backend"
    /\ requests' = Append(requests, [api |-> "search", page |-> currentPage])
    /\ apiErrors' = Append(apiErrors, [api |-> "search", error |-> error,
                                   thrown |-> handleGitHubError(error)])
    /\ Throw(handleGitHubError(error))
    /\ UNCHANGED <<fetchFrame, query, currentPage, allPRs, branches,
                   maintainersList, localStorage, setLog, memoryCache,
                   redisStore>>

(***************************************************************************)
(* GitHubServiceClass of the browser side: the two private paging loops    *)
(***************************************************************************)
GITHUB_API_CONFIG == [PER_PAGE |-> 100, MAX_PAGES |-> 10, MAX_PRS |-> 500]

\* while (page <= MAX_PAGES && allPRs.length < MAX_PRS)
FrontendLoopGuard(page, collected) ==
    page <= GITHUB_API_CONFIG.MAX_PAGES
        /\ collected < GITHUB_API_CONFIG.MAX_PRS

\* the loop goes on to the next page after this one
FrontendNextPullsPage(data, startDate, page, collected) ==
    /\ Len(data) # 0
    /\ ~(Len(data) < GITHUB_API_CONFIG.PER_PAGE)
    /\ ~(data[Len(data)].created_at < startDate)
    /\ FrontendLoopGuard(page + 1, collected)

\* fetchPullRequests of the browser side up to its first request
FrontendFetchPullRequests(filter) ==
    /\ Begin(Query("pulls", "frontend", "browser", Owner, Repo, "", <<>>,
                   filter, 1))
    /\ currentPage' = 1
    /\ IF FrontendLoopGuard(1, 0)
       THEN fpc' = "pulls" /\ outcome' = outcome
       ELSE Return(<<>>)
    /\ UNCHANGED <<fetchFrame, allPRs, branches, maintainersList,
                   localStorage, requests, apiErrors, setLog, memoryCache,
                   redisStore>>

\* request() answers with a page: data.filter(created_at >= startDate)
\* .map(mapPullRequest), which keeps and maps as the backend does, is pushed
FrontendPullsPageOk(shape) ==
    LET data == PageOf(currentPage, shape)
        startDate == getStartDate(query.filter, now)
        collected == IF Len(data) = 0 THEN allPRs
                     ELSE allPRs \o filteredPRs(data, startDate)
    IN /\ fpc = "pulls"
       /\ query.side = "frontend"
       /\ requests' = Append(requests, [api |-> "pulls", page |-> currentPage])
       /\ fetched' = Append(fetched, shape)
       /\ allPRs' = collected
       /\ IF FrontendNextPullsPage(data, startDate, currentPage,
                                   Len(collected))
          THEN /\ currentPage' = currentPage + 1
               /\ fpc' = "pulls"
               /\ outcome' = outcome
          ELSE /\ currentPage' = currentPage
               /\ Return(collected)
       /\ UNCHANGED <<queryFrame, query, branches, maintainersList,
                      localStorage, apiErrors, setLog, memoryCache,
                      redisStore>>

\* request() throws: the catch logs the error and throws it again
FrontendPullsPageError(error) ==
    /\ fpc = "pulls"
    /\ query.side = "frontend"
    /\ requests' = Append(requests, [api |-> "pulls", page |-> currentPage])
    /\ apiErrors' = Append(apiErrors, [api |-> "pulls", error |-> error,
                                   thrown |-> request(error)])
    /\ Throw(request(error))
    /\ UNCHANGED <<fetchFrame, query, currentPage, allPRs, branches,
                   maintainersList, localStorage, setLog, memoryCache,
                   redisStore>>

\* searchUserPullRequests up to its first request
FrontendSearchUserPullRequests(filter) ==
    /\ Begin(Query("search", "frontend", "browser", <<>>, <<>>, "", Username,
                   filter, 1))
    /\ currentPage' = 1
    /\ fpc' = "search"
    /\ UNCHANGED <<fetchFrame, allPRs, branches, maintainersList,
                   localStorage, requests, apiErrors, setLog, outcome,
                   memoryCache, redisStore>>

\* request() answers with a page of len items; mapSearchResultToPR builds
\* the value that prs.push({...}) of the backend builds
FrontendSearchPageOk(len) ==
    LET items == SearchPageOf(currentPage, len)
        prs == allPRs \o [i \in DOMAIN items |->
                             mapSearchItem(items[i], Str(query.username))]
    IN /\ fpc = "search"
       /\ query.side = "frontend"
       /\ requests' = Append(requests, [api |-> "search", page |-> currentPage])
       /\ allPRs' = prs
       /\ IF NextSearchPage(len, currentPage, Len(prs))
          THEN /\ currentPage' = currentPage + 1
               /\ fpc' = "search"
               /\ outcome' = outcome
          ELSE /\ currentPage' = currentPage
               /\ Return(prs)
       /\ UNCHANGED <<fetchFrame, query, branches, maintainersList,
                      localStorage, apiErrors, setLog, memoryCache,
                      redisStore>>

\* request() throws, and searchUserPullRequests has no catch
FrontendSearchPageError(error) ==
    /\ fpc = "search"
    /\ query.side = "frontend"
    /\ requests' = Append(requests, [api |-> "search", page |-> currentPage])
    /\ apiErrors' = Append(apiErrors, [api |-> "search", error |-> error,
                                   thrown |-> request(error)])
    /\ Throw(request(error))
    /\ UNCHANGED <<fetchFrame, query, currentPage, allPRs, branches,
                   maintainersList, localStorage, setLog, memoryCache,
                   redisStore>>

(***************************************************************************)
(* RepositoryController and UserProfileController: the handlers of the     *)
(* public routes, up to the first API call of the service                  *)
(***************************************************************************)
ValidationError == [class |-> "ValidationError", status |-> 400, resetAt |-> Null]

\* the url parameter of a request, by its parts; the parameter is missing
\* when it has no name
Url(input) ==
    IF input.owner = <<>> /\ input.repo = <<>> THEN input.start \o input.end
    ELSE input.start \o input.owner \o <<"/">> \o input.repo \o input.end

\* GET /repos/analyze?url=&branch=&filter=
analyze(input, branch, filter) ==
    LET parsed == parse(Url(input))
    IN IF parsed.ok
       THEN fetchRepositoryStats("analyze", parsed.owner, parsed.repo, branch,
                                 filter)
       ELSE /\ Begin(Query("repoStats", "backend", "analyze", input.owner,
                           input.repo, branch, <<>>, filter, 1))
            /\ Throw(ValidationError)
            /\ UNCHANGED <<fetchFrame, currentPage, allPRs, branches,
                           maintainersList, localStorage, requests, apiErrors,
                           setLog, memoryCache, redisStore>>

\* GET /repos/:owner/:repo/stats
getStats(owner, repo, branch, filter) ==
    fetchRepositoryStats("getStats", owner, repo, branch, filter)

\* GET /repos/:owner/:repo/branches
getBranches(owner, repo) == fetchBranches("getBranches", owner, repo)

\* GET /repos/:owner/:repo/prs
getPullRequests(owner, repo, branch, filter, page) ==
    fetchPullRequests("getPullRequests", owner, repo, branch, filter, page)

\* GET /repos/:owner/:repo/contributors
getContributors(owner, repo, branch, filter) ==
    fetchContributors("getContributors", owner, repo, branch, filter)

\* GET /users/:username/profile
getProfile(username, filter) == fetchUserStats("getProfile", username, filter)

(***************************************************************************)
(* Inputs of the aggregator runs                                           *)
(***************************************************************************)
Logins == {"alice", "bob"}

UTCZone == [std |-> 0, dstFrom |-> 0, dstTo |-> 0]
FixedZone == [std |-> 19800, dstFrom |-> 0, dstTo |-> 0]
\* clocks go forward at 02:00 local on day BaseDay - 5
SpringZone == [std |-> -5 * Hour,
               dstFrom |-> (BaseDay - 5) * Day + 7 * Hour,
               dstTo |-> (BaseDay + 1000) * Day]
\* clocks go back at 02:00 local on day BaseDay - 5
FallZone == [std |-> -5 * Hour,
             dstFrom |-> (BaseDay - 1000) * Day,
             dstTo |-> (BaseDay - 5) * Day + 6 * Hour]
Zones == {UTCZone, FixedZone, SpringZone, FallZone}

ClockReadings == {BaseDay * Day + 1800, BaseDay * Day + 12 * Hour}

\* PR values of the rollup runs: every author, state, merged flag and label set
RollupPRs ==
    {[login |-> l, state |-> s, merged |-> m,
      createdAt |-> (BaseDay - 1) * Day,
      mergedAt |-> IF m THEN (BaseDay - 1) * Day + Hour ELSE Null,
      closedAt |-> IF s = "closed" THEN (BaseDay - 1) * Day + Hour ELSE Null,
      labels |-> lb, additions |-> 1, deletions |-> 0] :
        l \in Logins, s \in {"open", "closed"}, m \in BOOLEAN,
        lb \in {<<>>, <<"bug">>}}

\* PR values of the timeline runs: created inside or outside the window,
\* open, merged or closed without merge
TimelinePRs ==
    {[login |-> "alice", state |-> IF k = "open" THEN "open" ELSE "closed",
      merged |-> (k = "merged"),
      createdAt |-> c,
      mergedAt |-> IF k = "merged" THEN c + Day ELSE Null,
      closedAt |-> IF k = "open" THEN Null ELSE c + Day,
      labels |-> <<>>, additions |-> 0, deletions |-> 0] :
        c \in {(BaseDay - 2) * Day + Hour, (BaseDay - 200) * Day},
        k \in {"open", "merged", "closed"}}

NoStats == [totalPRs |-> 0, contributors |-> <<>>, recentPRs |-> <<>>,
            labelDistribution |-> [x \in {} |-> 0], activityTimeline |-> <<>>]

NoAgain == [rollup |-> <<>>, stats |-> NoStats]

InitRollup ==
    /\ InitCacheState
    /\ InitFetchState
    /\ redisUp
    /\ now = BaseDay * Day + 12 * Hour
    /\ zone = UTCZone
    /\ aggFilter = "2w"
    /\ aggMaintainers \in {{}, {"alice"}}
    /\ aggPrs = <<>>
    /\ aggPc = "collect"
    /\ rollup = <<>>
    /\ stats = NoStats
    /\ again = NoAgain

InitTimeline ==
    /\ InitCacheState
    /\ InitFetchState
    /\ redisUp
    /\ now \in ClockReadings
    /\ zone \in Zones
    /\ aggFilter \in TIME_FILTERS
    /\ aggMaintainers = {}
    /\ aggPrs = <<>>
    /\ aggPc = "collect"
    /\ rollup = <<>>
    /\ stats = NoStats
    /\ again = NoAgain

\* one more PR of the list under aggregation
AddPR(pool, maxLen) ==
    /\ aggPc = "collect"
    /\ Len(aggPrs) < maxLen
    /\ \E pr \in pool : aggPrs' = Append(aggPrs, pr)
    /\ UNCHANGED <<now, zone, aggPc, aggFilter, aggMaintainers, rollup, stats,
                   again, cacheVars, fetchVars>>

AddRollupPR == AddPR(RollupPRs, MaxPRs)

AddTimelinePR == AddPR(TimelinePRs, MaxTimelinePRs)

\* fetchContributors / fetchRepositoryStats on the collected list
Aggregate ==
    /\ aggPc = "collect"
    /\ aggPc' = "done"
    /\ rollup' = calculateContributorStats(aggPrs, aggMaintainers)
    /\ stats' = RepositoryStats(aggPrs, aggMaintainers, aggFilter, now, zone)
    /\ UNCHANGED <<now, zone, aggPrs, aggFilter, aggMaintainers, again,
                   cacheVars, fetchVars>>

\* time passes between two calls of the aggregator
ClockAdvance(d) ==
    /\ aggPc = "done"
    /\ aggPc' = "later"
    /\ now' = now + d
    /\ UNCHANGED <<zone, aggPrs, aggFilter, aggMaintainers, rollup, stats,
                   again, cacheVars, fetchVars>>

\* the same PR list, maintainer set and time filter are aggregated again
AggregateAgain ==
    /\ aggPc \in {"done", "later"}
    /\ aggPc' = "again"
    /\ again' = [rollup |-> calculateContributorStats(aggPrs, aggMaintainers),
                 stats |-> RepositoryStats(aggPrs, aggMaintainers, aggFilter,
                                           now, zone)]
    /\ UNCHANGED <<now, zone, aggPrs, aggFilter, aggMaintainers, rollup,
                   stats, cacheVars, fetchVars>>

vars == <<now, aggVars, cacheVars, fetchVars>>

NextRollup == AddRollupPR \/ Aggregate

NextTimeline == AddTimelinePR \/ Aggregate

InitCache ==
    /\ InitCacheState
    /\ InitFetchState
    /\ now = 0
    /\ zone = UTCZone
    /\ aggFilter = "2w"
    /\ aggMaintainers = {}
    /\ aggPrs = <<>>
    /\ aggPc = "collect"
    /\ rollup = <<>>
    /\ stats = NoStats
    /\ again = NoAgain

NextCache ==
    \/ ConnectOk
    \/ ConnectFail
    \/ ConnectionLost
    \/ RedisDown
    \/ RedisUp
    \/ Tick
    \/ \E k \in Keys : CacheGet(k)
    \/ \E k \in Keys, v \in CacheValues : CacheSet(k, v)
    \/ \E k \in Keys : CacheDelete(k)
    \/ \E k \in Keys : CacheExists(k)
    \/ CacheFlush
    \/ \E pattern \in Patterns : CacheDeletePattern(pattern)
    \/ \E c \in Callers, k \in Keys : GetOrFetchBegin(c, k)
    \/ \E c \in Callers, v \in CacheValues : FetchFnResolve(c, v)
    \/ \E c \in Callers : FetchFnReject(c)

SpecCache == InitCache /\ [][NextCache]_vars

\* the connection events are timer and socket callbacks: each one that stays
\* enabled is eventually run
FairSpecCache ==
    /\ SpecCache
    /\ WF_vars(ConnectOk)
    /\ WF_vars(ConnectFail)
    /\ WF_vars(ConnectionLost)

SpecRollup == InitRollup /\ [][NextRollup]_vars

SpecTimeline == InitTimeline /\ [][NextTimeline]_vars

\* the aggregator called twice on one input, in a process whose local time
\* is UTC
InitPure ==
    /\ InitCacheState
    /\ InitFetchState
    /\ redisUp
    /\ now \in ClockReadings
    /\ zone = UTCZone
    /\ aggFilter \in TIME_FILTERS
    /\ aggMaintainers \in {{}, {"alice"}}
    /\ aggPrs = <<>>
    /\ aggPc = "collect"
    /\ rollup = <<>>
    /\ stats = NoStats
    /\ again = NoAgain

ClockSteps == {Hour, Day}

NextPure ==
    \/ AddTimelinePR
    \/ Aggregate
    \/ \E d \in ClockSteps : ClockAdvance(d)
    \/ AggregateAgain

SpecPure == InitPure /\ [][NextPure]_vars

(***************************************************************************)
(* One query served by a freshly started service, from the call to the     *)
(* return                                                                  *)
(***************************************************************************)
FetchFilters == {"2w", "all"}

\* the repository statistics are asked for the default window
StatsFilters == {"2w"}

\* listCollaborators refuses a caller who is not a collaborator, answers
\* with a rate-limit response that has no reset header, or times out
CollaboratorErrors ==
    {[status |-> 403, remaining |-> "59", reset |-> now + Hour],
     [status |-> 403, remaining |-> "0", reset |-> Null],
     [status |-> Null, remaining |-> "", reset |-> Null]}

StartPages == {1, 2}

PageLengths == {0, 1, 100}

CollaboratorLists == {<<>>, <<"alice">>}

\* the cache as a query can find it: connected to a store that works;
\* connected to a store that fails; in fallback mode after the last attempt
CacheModes ==
    {[redisUp |-> TRUE, status |-> "ready", retryAttempts |-> 0,
      isConnected |-> TRUE, useMemoryFallback |-> FALSE],
     [redisUp |-> FALSE, status |-> "ready", retryAttempts |-> 0,
      isConnected |-> TRUE, useMemoryFallback |-> FALSE],
     [redisUp |-> FALSE, status |-> "end", retryAttempts |-> 3,
      isConnected |-> FALSE, useMemoryFallback |-> TRUE]}

InitFetch ==
    /\ InitFetchState
    /\ \E m \in CacheModes :
          /\ redisUp = m.redisUp
          /\ status = m.status
          /\ retryAttempts = m.retryAttempts
          /\ isConnected = m.isConnected
          /\ useMemoryFallback = m.useMemoryFallback
    /\ redisStore = EmptyMap
    /\ memoryCache = EmptyMap
    /\ call = [c \in Callers |-> Idle]
    /\ ret = NoRet
    /\ written = EmptyMap
    /\ deleted = {}
    /\ storeAnswered = FALSE
    /\ ops = 0
    /\ now = BaseDay * Day + 12 * Hour
    /\ zone = UTCZone
    /\ aggFilter = "2w"
    /\ aggMaintainers = {}
    /\ aggPrs = <<>>
    /\ aggPc = "collect"
    /\ rollup = <<>>
    /\ stats = NoStats
    /\ again = NoAgain

NextFetch ==
    \/ \E filter \in FetchFilters, page \in StartPages :
          GetPullRequests(filter, page)
    \/ \E filter \in StatsFilters : FetchRepositoryStats(filter)
    \/ \E shape \in PageShapes : PullsPageOk(shape)
    \/ \E error \in RawErrors : PullsPageError(error)
    \/ FetchMaintainers
    \/ \E logins \in CollaboratorLists : CollaboratorsOk(logins)
    \/ \E error \in CollaboratorErrors : CollaboratorsError(error)
    \/ AggregateStats
    \/ FetchBranches
    \/ FrontendFetchBranches
    \/ \E len \in PageLengths : BranchesPageOk(len)
    \/ \E error \in RawErrors : BranchesPageError(error)
    \/ \E filter \in FetchFilters : FetchUserStats(filter)
    \/ ProfileOk
    \/ \E error \in RawErrors : ProfileError(error)
    \/ \E len \in PageLengths : SearchPageOk(len)
    \/ \E error \in RawErrors : SearchPageError(error)

SpecFetch == InitFetch /\ [][NextFetch]_vars

(***************************************************************************)
(* One request to a public route of a freshly started service whose cache  *)
(* is connected, from the handler to the response                          *)
(***************************************************************************)
\* well-formed: o, a-b; malformed: -o, o., a name of 40 characters
OwnerInputs ==
    {<<"o">>, <<"a", "-", "b">>, <<"-", "o">>, <<"o", ".">>,
     [i \in 1..40 |-> "a"]}

\* well-formed: r, r.js; malformed: r!
RepoInputs == {<<"r">>, <<"r", ".", "j", "s">>, <<"r", "!">>}

\* well-formed: u; malformed: -u, u_x
UsernameInputs == {<<"u">>, <<"-", "u">>, <<"u", "_", "x">>}

\* no branch filter, a branch named all, a branch named main
BranchInputs == {"", "all", "main"}

UrlInputs ==
    {[start |-> st, owner |-> o, repo |-> r, end |-> e] :
        st \in {<<>>, GithubCom, Https \o GithubCom},
        o \in OwnerInputs, r \in RepoInputs,
        e \in {<<>>, DotGit, <<"/">>}}
    \cup {[start |-> <<>>, owner |-> <<>>, repo |-> <<>>, end |-> <<>>]}

RouteFilters == {"2w"}

\* the API answers a request with no item, with one item, or with not found
RoutePageShapes == {[len |-> 0, old |-> {}], [len |-> 1, old |-> {}]}

RouteErrors == {[status |-> 404, remaining |-> "59", reset |-> now + Hour]}

InitRoutes ==
    /\ InitFetchState
    /\ redisUp = TRUE
    /\ status = "ready"
    /\ retryAttempts = 0
    /\ isConnected = TRUE
    /\ useMemoryFallback = FALSE
    /\ redisStore = EmptyMap
    /\ memoryCache = EmptyMap
    /\ call = [c \in Callers |-> Idle]
    /\ ret = NoRet
    /\ written = EmptyMap
    /\ deleted = {}
    /\ storeAnswered = FALSE
    /\ ops = 0
    /\ now = BaseDay * Day + 12 * Hour
    /\ zone = UTCZone
    /\ aggFilter = "2w"
    /\ aggMaintainers = {}
    /\ aggPrs = <<>>
    /\ aggPc = "collect"
    /\ rollup = <<>>
    /\ stats = NoStats
    /\ again = NoAgain

NextRoutes ==
    \/ \E input \in UrlInputs, branch \in BranchInputs,
          filter \in RouteFilters : analyze(input, branch, filter)
    \/ \E owner \in OwnerInputs, repo \in RepoInputs, branch \in BranchInputs,
          filter \in RouteFilters : getStats(owner, repo, branch, filter)
    \/ \E owner \in OwnerInputs, repo \in RepoInputs : getBranches(owner, repo)
    \/ \E owner \in OwnerInputs, repo \in RepoInputs, branch \in BranchInputs,
          filter \in RouteFilters, page \in StartPages :
          getPullRequests(owner, repo, branch, filter, page)
    \/ \E owner \in OwnerInputs, repo \in RepoInputs, branch \in BranchInputs,
          filter \in RouteFilters : getContributors(owner, repo, branch, filter)
    \/ \E username \in UsernameInputs, filter \in RouteFilters :
          getProfile(username, filter)
    \/ \E shape \in RoutePageShapes : PullsPageOk(shape)
    \/ \E error \in RouteErrors : PullsPageError(error)
    \/ FetchMaintainers
    \/ \E logins \in CollaboratorLists : CollaboratorsOk(logins)
    \/ \E error \in RouteErrors : CollaboratorsError(error)
    \/ AggregateStats
    \/ AggregateContributors
    \/ \E len \in {1} : BranchesPageOk(len)
    \/ \E error \in RouteErrors : BranchesPageError(error)
    \/ ProfileOk
    \/ \E error \in RouteErrors : ProfileError(error)
    \/ \E len \in {1} : SearchPageOk(len)
    \/ \E error \in RouteErrors : SearchPageError(error)

SpecRoutes == InitRoutes /\ [][NextRoutes]_vars

(***************************************************************************)
(* One fetchPullRequests, each pulls.list call and its answer two steps    *)
(***************************************************************************)
InitPages == InitRoutes

NextPages ==
    \/ \E filter \in FetchFilters, page \in StartPages :
          GetPullRequests(filter, page)
    \/ PullsPageCall
    \/ \E shape \in PageShapes : PullsPageAnswer(shape)
    \/ \E error \in RouteErrors : PullsPageReject(error)

SpecPages == InitPages /\ [][NextPages]_vars

(***************************************************************************)
(* The paging loops of the browser side, and the search loop of the        *)
(* backend next to the one of the browser side                             *)
(***************************************************************************)
InitLoops == InitRoutes

NextLoops ==
    \/ \E filter \in FetchFilters : FrontendFetchPullRequests(filter)
    \/ \E shape \in PageShapes : FrontendPullsPageOk(shape)
    \/ \E error \in RawErrors : FrontendPullsPageError(error)
    \/ \E filter \in FetchFilters : FrontendSearchUserPullRequests(filter)
    \/ \E len \in PageLengths : FrontendSearchPageOk(len)
    \/ \E error \in RawErrors : FrontendSearchPageError(error)
    \/ \E filter \in FetchFilters : FetchUserStats(filter)
    \/ ProfileOk
    \/ \E error \in RawErrors : ProfileError(error)
    \/ \E len \in PageLengths : SearchPageOk(len)
    \/ \E error \in RawErrors : SearchPageError(error)

SpecLoops == InitLoops /\ [][NextLoops]_vars

(***************************************************************************)
(* RepositoryController.getStats served for several requests at a time by  *)
(* the one GitHubService of the controller.  A handler runs until its next *)
(* await: the cache read of getOrFetch, an API call, the cache write.  The *)
(* repository o/r is private: the API answers the holders of tokA and tokB *)
(* and tells everyone else that it is not found; only the holder of tokA   *)
(* may list its collaborators.                                             *)
(***************************************************************************)
\* req.user?.accessToken of a request: absent, or the token of a user
Credentials == {"none", "tokA", "tokB"}

CanRead(auth) == auth \in {"tokA", "tokB"}

CanListCollaborators(auth) == auth = "tokA"

StatsKey == repoStats(Owner, Repo, "", "2w")

MaintainersKey == maintainersKey(Owner, Repo)

\* what no step of a request changes
requestFrame ==
    <<now, aggVars, connVars, call, ret, written, deleted, storeAnswered, ops,
      query, fpc, currentPage, allPRs, branches, maintainersList,
      localStorage, requests, fetched, sent, apiErrors, setLog, outcome>>

\* the call the handler of r is awaiting
AwaitedCall(r) == served[r].calls[Len(served[r].calls)]

\* getStats up to its first await: setAuthToken if the request has a token,
\* then fetchRepositoryStats, getOrFetch, await this.get(cacheKey)
GetStatsArrives(r, token) ==
    /\ served[r].pc = "idle"
    /\ octokit' = IF token # "none" THEN token ELSE octokit
    /\ served' = [served EXCEPT ![r] =
                     [NotServed EXCEPT !.pc = "statsGet", !.token = token]]
    /\ UNCHANGED <<requestFrame, memoryCache, redisStore, cachedAs>>

\* the cache read resolves: a hit is the answer; on a miss fetchFn runs up
\* to await this.octokit.rest.pulls.list(...)
StatsCacheAnswers(r) ==
    /\ served[r].pc = "statsGet"
    /\ CommandsAnswered
    /\ memoryCache' = memoryAfterCacheGet(StatsKey)
    /\ served' = [served EXCEPT ![r] =
          IF get(StatsKey) # JNull
          THEN [@ EXCEPT !.pc = "done", !.hit = TRUE,
                         !.source = cachedAs[StatsKey],
                         !.answer = [kind |-> "value",
                                     value |-> get(StatsKey),
                                     error |-> NoError]]
          ELSE [@ EXCEPT !.pc = "pulls",
                         !.calls = Append(@, [api |-> "pulls",
                                              auth |-> octokit])]]
    /\ UNCHANGED <<requestFrame, octokit, redisStore, cachedAs>>

\* pulls.list resolves or rejects, by the credential the call carried; then
\* fetchMaintainers, getOrFetch, await this.get(cacheKey)
PullsListAnswers(r) ==
    /\ served[r].pc = "pulls"
    /\ served' = [served EXCEPT ![r] =
          IF CanRead(AwaitedCall(r).auth)
          THEN [@ EXCEPT !.pc = "maintainersGet",
                         !.source = AwaitedCall(r).auth]
          ELSE [@ EXCEPT !.pc = "done",
                         !.answer = [kind |-> "error", value |-> JNull,
                                     error |-> GitHubApiError(404)]]]
    /\ UNCHANGED <<requestFrame, octokit, memoryCache, redisStore, cachedAs>>

\* the cache read of fetchMaintainers resolves: a hit is the list; on a
\* miss fetchFn runs up to await this.octokit.rest.repos.listCollaborators
MaintainersCacheAnswers(r) ==
    /\ served[r].pc = "maintainersGet"
    /\ CommandsAnswered
    /\ memoryCache' = memoryAfterCacheGet(MaintainersKey)
    /\ served' = [served EXCEPT ![r] =
          IF get(MaintainersKey) # JNull
          THEN [@ EXCEPT !.pc = "aggregate",
                         !.maintainers =
                             [i \in DOMAIN get(MaintainersKey).v |->
                                 get(MaintainersKey).v[i].v]]
          ELSE [@ EXCEPT !.pc = "collaborators",
                         !.calls = Append(@, [api |-> "collaborators",
                                              auth |-> octokit])]]
    /\ UNCHANGED <<requestFrame, octokit, redisStore, cachedAs>>

\* listCollaborators resolves, or rejects and the catch returns []; the
\* list is set in the cache
CollaboratorsAnswer(r) ==
    LET auth == AwaitedCall(r).auth
        refused == [status |-> 403, remaining |-> "59", reset |-> now + Hour]
        list == IF CanListCollaborators(auth) THEN <<"alice">>
                ELSE collaboratorsCatch(refused).list
    IN /\ served[r].pc = "collaborators"
       /\ CommandsAnswered
       /\ memoryCache' = memoryAfterSet(MaintainersKey, NamesValue(list),
                                        MAINTAINER)
       /\ redisStore' = redisAfterSet(MaintainersKey, NamesValue(list),
                                      MAINTAINER)
       /\ cachedAs' = Put(cachedAs, MaintainersKey, auth)
       /\ served' = [served EXCEPT ![r] =
                        [@ EXCEPT !.pc = "aggregate", !.maintainers = list]]
       /\ UNCHANGED <<requestFrame, octokit>>

\* the rest of fetchRepositoryStats: the aggregate of the one PR the API
\* listed is set in the cache and is the answer
StatsComputed(r) ==
    LET prs == filteredPRs(PageOf(1, [len |-> 1, old |-> {}]),
                           getStartDate("2w", now))
        maintainers == {served[r].maintainers[i] :
                           i \in DOMAIN served[r].maintainers}
        data == StatsValue(RepositoryStats(prs, maintainers, "2w", now, zone))
    IN /\ served[r].pc = "aggregate"
       /\ CommandsAnswered
       /\ memoryCache' = memoryAfterSet(StatsKey, data, REPO_STATS)
       /\ redisStore' = redisAfterSet(StatsKey, data, REPO_STATS)
       /\ cachedAs' = Put(cachedAs, StatsKey, served[r].source)
       /\ served' = [served EXCEPT ![r] =
                        [@ EXCEPT !.pc = "done",
                                  !.answer = [kind |-> "value",
                                              value |-> data,
                                              error |-> NoError]]]
       /\ UNCHANGED <<requestFrame, octokit>>

InitRequests == InitRoutes

NextRequests ==
    \/ \E r \in Requesters, token \in Credentials : GetStatsArrives(r, token)
    \/ \E r \in Requesters : StatsCacheAnswers(r)
    \/ \E r \in Requesters : PullsListAnswers(r)
    \/ \E r \in Requesters : MaintainersCacheAnswers(r)
    \/ \E r \in Requesters : CollaboratorsAnswer(r)
    \/ \E r \in Requesters : StatsComputed(r)

SpecRequests == InitRequests /\ [][NextRequests]_vars

(***************************************************************************)
(* Properties of the aggregator                                            *)
(***************************************************************************)
RECURSIVE SumTotalPRs(_)
SumTotalPRs(cs) ==
    IF cs = <<>> THEN 0 ELSE Head(cs).totalPRs + SumTotalPRs(Tail(cs))

PRsOf(u) == {j \in DOMAIN aggPrs : aggPrs[j].login = u}

\* C8: for any PR list, the totalPRs of all contributors sum to the number
\* of PRs, and every contributor has totalPRs = mergedPRs + openPRs +
\* closedPRs.
C8_RollupTotals ==
    aggPc = "done" =>
        /\ SumTotalPRs(rollup) = Len(aggPrs)
        /\ \A i \in DOMAIN rollup :
              rollup[i].totalPRs =
                  rollup[i].mergedPRs + rollup[i].openPRs + rollup[i].closedPRs

\* three PRs of two authors, one of them merged while still flagged open
C8_Witness ==
    /\ aggPc = "done"
    /\ Len(aggPrs) >= 3
    /\ Len(rollup) = 2
    /\ \E j \in DOMAIN aggPrs : aggPrs[j].merged /\ aggPrs[j].state = "open"

\* C9: each PR increments exactly one of mergedPRs, openPRs, closedPRs of
\* its author: mergedPRs if it is flagged merged (whatever its state),
\* else openPRs if its state is open, else closedPRs.
C9_Precedence ==
    aggPc = "done" =>
        /\ \A j \in DOMAIN aggPrs :
              Cardinality({i \in DOMAIN rollup :
                              rollup[i].username = aggPrs[j].login}) = 1
        /\ \A i \in DOMAIN rollup :
              LET mine == PRsOf(rollup[i].username)
              IN /\ rollup[i].mergedPRs =
                        Cardinality({j \in mine : aggPrs[j].merged})
                 /\ rollup[i].openPRs =
                        Cardinality({j \in mine : ~aggPrs[j].merged
                                        /\ aggPrs[j].state = "open"})
                 /\ rollup[i].closedPRs =
                        Cardinality({j \in mine : ~aggPrs[j].merged
                                        /\ aggPrs[j].state # "open"})

\* the scenario of the specification: two PRs of one author, one merged and
\* one open, give totalPRs = 2, mergedPRs = 1, openPRs = 1, closedPRs = 0
C9_Witness ==
    /\ aggPc = "done"
    /\ Len(aggPrs) = 2
    /\ aggPrs[1].login = aggPrs[2].login
    /\ aggPrs[1].merged /\ aggPrs[1].state = "closed"
    /\ ~aggPrs[2].merged /\ aggPrs[2].state = "open"
    /\ Len(rollup) = 1
    /\ rollup[1].totalPRs = 2 /\ rollup[1].mergedPRs = 1
    /\ rollup[1].openPRs = 1 /\ rollup[1].closedPRs = 0

\* C10: for every time filter and clock value the activity timeline has
\* exactly daysBetween(startDate(filter), today) + 1 entries, one per
\* calendar day from startDate to today, none repeated, none outside.
C10_TimelineDense ==
    aggPc = "done" =>
        LET tl == stats.activityTimeline
            firstDay == toDateString(getStartDate(aggFilter, now))
            today == toDateString(now)
        IN /\ Len(tl) = today - firstDay + 1
           /\ {tl[i].date : i \in DOMAIN tl} = firstDay..today
           /\ \A i, j \in DOMAIN tl : tl[i].date = tl[j].date => i = j

\* what does hold in every zone: no date is repeated, none is outside
C10_TimelineUniqueInRange ==
    aggPc = "done" =>
        LET tl == stats.activityTimeline
        IN /\ \A i \in DOMAIN tl :
                 /\ tl[i].date >= toDateString(getStartDate(aggFilter, now))
                 /\ tl[i].date <= toDateString(now)
           /\ \A i, j \in DOMAIN tl : tl[i].date = tl[j].date => i = j

\* the timeline is dense where local days are always 24 hours long
C10_DenseWithoutDst ==
    (aggPc = "done" /\ zone.dstFrom = zone.dstTo) => C10_TimelineDense

\* the position in the fetched list of the first PR of author u
FirstPR(u) == CHOOSE j \in PRsOf(u) : \A m \in PRsOf(u) : j <= m

\* C16: the contributors of a RepositoryStats result are the entries of the
\* rollup in descending order of totalPRs, and contributors with equal
\* totalPRs are in the order in which their first PR appears in the list.
C16_ContributorsSorted ==
    aggPc = "done" =>
        LET cs == stats.contributors
        IN /\ Len(cs) = Len(rollup)
           /\ {cs[i] : i \in DOMAIN cs} = {rollup[i] : i \in DOMAIN rollup}
           /\ \A i, j \in DOMAIN cs :
                 i < j =>
                    \/ cs[i].totalPRs > cs[j].totalPRs
                    \/ /\ cs[i].totalPRs = cs[j].totalPRs
                       /\ FirstPR(cs[i].username) < FirstPR(cs[j].username)

\* bob's first PR is found before alice's and alice has as many PRs as
\* bob: bob is listed first
C16_Witness ==
    /\ aggPc = "done"
    /\ Len(aggPrs) >= 2
    /\ aggPrs[1].login = "bob"
    /\ Len(stats.contributors) = 2
    /\ stats.contributors[1].username = "bob"
    /\ stats.contributors[1].totalPRs = stats.contributors[2].totalPRs

\* C11: aggregating the same PR list with the same maintainer set and time
\* filter a second time gives the same contributors, label distribution
\* and timeline as the first time, whatever time has passed in between.
C11_AggregationPure ==
    aggPc = "again" =>
        /\ again.rollup = rollup
        /\ again.stats.contributors = stats.contributors
        /\ again.stats.labelDistribution = stats.labelDistribution
        /\ again.stats.activityTimeline = stats.activityTimeline

\* the parts of C11 that hold: the contributors and the label distribution
\* do not depend on the clock
C11_RollupAndLabelsPure ==
    aggPc = "again" =>
        /\ again.rollup = rollup
        /\ again.stats.contributors = stats.contributors
        /\ again.stats.labelDistribution = stats.labelDistribution

\* the timeline is the same when both calls read the clock on one UTC day
C11_PureWithinOneDay ==
    (aggPc = "again"
        /\ \E d \in ClockSteps \cup {0} :
               /\ toDateString(now - d) = toDateString(now)
               /\ stats.activityTimeline =
                      calculateActivityTimeline(aggPrs, aggFilter, now - d, zone))
    => again.stats.activityTimeline = stats.activityTimeline

(***************************************************************************)
(* Properties of the cache                                                 *)
(***************************************************************************)
\* a set() returns in this step: set itself, or the set of getOrFetch
SetReturns(k, v) ==
    \/ CacheSet(k, v)
    \/ \E c \in Callers : call[c].pc = "computing" /\ call[c].key = k
                            /\ FetchFnResolve(c, v)

\* C2: with the distributed store failing on every operation (no command
\* has been answered by it, this operation's included), getOrFetch returns
\* the value computed by computeFn, and a getOrFetch on a key whose last set
\* is younger than its TTL returns that value without invoking computeFn.
C2_FallbackTransparency ==
    [][~storeAnswered' =>
         /\ \A c \in Callers, v \in CacheValues :
               FetchFnResolve(c, v) => ret'.kind = "computed" /\ ret'.value = v
         /\ \A c \in Callers, k \in Keys :
               (GetOrFetchBegin(c, k) /\ k \in DOMAIN written
                   /\ now < written[k].expiry)
               => /\ call'[c].pc = "idle"
                  /\ ret'.op = "getOrFetch" /\ ret'.kind = "hit"
                  /\ ret'.key = k /\ ret'.value = written[k].value]_vars

\* a second getOrFetch was served, from the Map, the value the first one
\* computed, the connected client having had every command rejected (the
\* fallback flag not set)
C2_Witness ==
    /\ ~storeAnswered
    /\ ~useMemoryFallback
    /\ status = "ready"
    /\ ret.op = "getOrFetch" /\ ret.kind = "hit"
    /\ ret.key \in DOMAIN written
    /\ written[ret.key].by = "getOrFetch"
    /\ ret.value = written[ret.key].value
    /\ ops = 2

\* C3: right after set(key, v, ttl) a get(key) returns v; once the TTL of
\* the last set of a key has run out (now > expiry), get(key) returns null.
C3_RoundTrip ==
    [][/\ \A k \in Keys, v \in CacheValues : SetReturns(k, v) => get(k)' = v
       /\ \A k \in DOMAIN written' :
             now' > written'[k].expiry => get(k)' = JNull]_vars

\* a get returned null for a key whose last set has expired and whose entry
\* is still in a store
C3_Witness ==
    /\ ret.op = "get" /\ ret.value = JNull
    /\ ret.key \in DOMAIN written
    /\ now > written[ret.key].expiry

\* C15: two identical queries on an absent key are not serialized: a
\* getOrFetch that misses starts its fetchFn whether or not another caller
\* is computing the same key; when a fetchFn resolves its caller gets the
\* value it computed, the entry of the key is that whole value, and the
\* other caller is left as it was.
C15_LastWriterWins ==
    [][/\ \A c \in Callers, k \in Keys :
             (GetOrFetchBegin(c, k) /\ get(k) = JNull)
             => call'[c] = [pc |-> "computing", key |-> k]
       /\ \A c \in Callers, k \in Keys, v \in CacheValues :
             (call[c].key = k /\ FetchFnResolve(c, v))
             => /\ ret'.kind = "computed" /\ ret'.value = v
                /\ get(k)' = v
                /\ \A d \in Callers \ {c} : call'[d] = call[d]]_vars

\* both callers computed the key at the same time and wrote different
\* values: the second write has returned and the cache answers with it
C15_Witness ==
    /\ ret.op = "getOrFetch" /\ ret.kind = "computed"
    /\ ret.key \in DOMAIN written
    /\ written[ret.key].raced
    /\ written[ret.key].before # written[ret.key].value
    /\ ret.value = written[ret.key].value
    /\ get(ret.key) = ret.value
    /\ \A c \in Callers : call[c].pc = "idle"

\* C19: set(key, v, ttl) leaves the entry in the in-process store too,
\* whichever store is active: a get(key) served by the in-process store
\* right after the set returns v.
C19_SetMirrorsToMemory ==
    [][\A k \in Keys, v \in CacheValues :
          SetReturns(k, v) => memoryGet(k)' = v]_vars

\* what set does: it writes the entry to one store, the distributed store
\* when setex is answered and the in-process store otherwise, and leaves
\* the other store as it is
C19_SetWritesOneStore ==
    [][\A k \in Keys, v \in CacheValues :
          SetReturns(k, v) =>
             IF CommandSent
             THEN /\ redisStore'[k] = NewEntry(v, TTLOf(k))
                  /\ memoryCache' = memoryCache
             ELSE /\ memoryCache'[k] = NewEntry(v, TTLOf(k))
                  /\ redisStore' = redisStore]_vars

\* C4: a transport error during a cache operation is swallowed and the
\* operation is answered by the in-process store.
C4_ErrorsRoutedToFallback ==
    [][TransportError =>
         /\ \A k \in Keys : CacheGet(k) => ret'.value = memoryGet(k)
         /\ \A k \in Keys, v \in CacheValues :
               SetReturns(k, v) => memoryCache'[k] = NewEntry(v, TTLOf(k))
         /\ \A k \in Keys : CacheDelete(k) => k \notin DOMAIN memoryCache'
         /\ \A k \in Keys :
               CacheExists(k) =>
                   ret'.value = (IF memoryExists(k) THEN JNum(1) ELSE JNum(0))
         /\ CacheFlush => memoryCache' = EmptyMap
         /\ \A pattern \in Patterns :
               CacheDeletePattern(pattern) =>
                   \A k \in Keys : PatternMatches(pattern, k)
                                       => k \notin DOMAIN memoryCache'
         /\ \A c \in Callers, k \in Keys :
               GetOrFetchBegin(c, k) =>
                   IF memoryGet(k) = JNull THEN call'[c].pc = "computing"
                   ELSE ret'.kind = "hit" /\ ret'.value = memoryGet(k)
         /\ ret'.kind # "threw" \/ \E c \in Callers : FetchFnReject(c)]_vars

\* the part of C4 that holds: no cache operation raises; a getOrFetch
\* rejects only when its fetchFn rejects
C4_NoOperationThrows ==
    [][ret'.kind = "threw" /\ ret' # ret => \E c \in Callers : FetchFnReject(c)]_vars

\* C5: whenever the cache is in fallback mode and the store is reachable,
\* the cache leaves the fallback mode, unless the store becomes unreachable
\* again first.
C5_ReprobesEventually ==
    (useMemoryFallback /\ redisUp) ~> (~useMemoryFallback \/ ~redisUp)

(***************************************************************************)
(* Properties of the queries                                               *)
(***************************************************************************)
\* the four kinds of the error taxonomy
ErrorKind(e) ==
    CASE e.class = "RateLimitError" -> "RateLimited"
      [] e.class = "GitHubApiError" /\ e.status = 404 -> "NotFound"
      [] e.class = "GitHubApiError" /\ e.status = 401 -> "Unauthorized"
      [] e.class = "GitHubApiError" -> "UpstreamError"
      [] OTHER -> "Unclassified"

Classified == {"RateLimited", "NotFound", "Unauthorized", "UpstreamError"}

RequestsOf(api) == SelectSeq(requests, LAMBDA r : r.api = api)

FailedCalls(apis) == {i \in DOMAIN apiErrors : apiErrors[i].api \in apis}

\* C1: whatever pages the API answers with, the backend fetchPullRequests
\* started at page 1 issues at most MAX_PAGES list requests and collects
\* and returns at most MAX_PRS items.
C1_PaginationBound ==
    (query.side = "backend" /\ query.op \in {"pulls", "repoStats"}
        /\ query.page = 1)
    => /\ Len(RequestsOf("pulls")) <= MAX_PAGES
       /\ Len(allPRs) <= MAX_PRS
       /\ (query.op = "pulls" /\ outcome.kind = "value")
             => Len(outcome.value) <= MAX_PRS

\* the API had a further full page to give after the fifth: the fetch
\* stopped at the caps with 5 requests and 500 items
C1_Witness ==
    /\ query.op = "pulls" /\ query.page = 1
    /\ outcome.kind = "value"
    /\ Len(outcome.value) = MAX_PRS
    /\ Len(RequestsOf("pulls")) = MAX_PAGES
    /\ outcome.value[MAX_PRS].createdAt >= getStartDate(query.filter, now)

\* C6: a fetch operation (fetchPullRequests, fetchBranches, fetchUserStats,
\* on either side) never returns a result in place of an API error: when a
\* call other than the maintainer lookup has failed, the operation re-raises
\* an error to its caller.
C6_NoResultInPlaceOfError ==
    (fpc = "done" /\ FailedCalls({"pulls", "branches", "profile", "search"}) # {})
    => outcome.kind = "error"

\* what holds of the backend: it never answers a failed call with a value
C6_BackendRethrows ==
    (fpc = "done" /\ query.side = "backend"
        /\ FailedCalls({"pulls", "branches", "profile", "search"}) # {})
    => outcome.kind = "error"

\* C7: when a page request of a repository or user query fails, the query
\* fails with an error of one of the four kinds, returns none of the PRs
\* of earlier pages, and leaves no entry in the cache under its key.
C7_FailedPageFailsQuery ==
    (fpc = "done" /\ query.op \in {"pulls", "repoStats", "userStats"}
        /\ FailedCalls({"pulls", "search"}) # {})
    => /\ outcome.kind = "error"
       /\ ErrorKind(outcome.error) \in Classified
       /\ QueryKey \notin setLog
       /\ QueryKey \notin DOMAIN memoryCache
       /\ QueryKey \notin DOMAIN redisStore

\* the part of C7 that holds: the query rejects, no PR is returned and no
\* entry is written
C7_NoPartialResultNoCacheWrite ==
    (fpc = "done" /\ query.op \in {"pulls", "repoStats", "userStats"}
        /\ FailedCalls({"pulls", "search"}) # {})
    => /\ outcome.kind = "error"
       /\ QueryKey \notin setLog
       /\ QueryKey \notin DOMAIN memoryCache
       /\ QueryKey \notin DOMAIN redisStore

\* the calls of the backend that failed and went through handleGitHubError
Classifications ==
    {i \in DOMAIN apiErrors :
        query.side = "backend" /\ apiErrors[i].api # "collaborators"}

\* C13: for every raw API error the classifier raises an error of exactly
\* one of the four kinds: RateLimited with a reset instant, NotFound,
\* Unauthorized, or UpstreamError with the status of the raw error.
C13_ClassifierTotal ==
    \A i \in Classifications :
        LET raw == apiErrors[i].error
            thrown == apiErrors[i].thrown
        IN /\ ErrorKind(thrown) \in Classified
           /\ ErrorKind(thrown) = "RateLimited" => thrown.resetAt # Null
           /\ (ErrorKind(thrown) = "UpstreamError" /\ raw.status # Null)
                 => thrown.status = raw.status

\* the part of C13 that holds: a raw error other than a rate-limit response
\* without the reset header is classified, by its status and headers
C13_ClassifiedWithResetHeader ==
    \A i \in Classifications :
        LET raw == apiErrors[i].error
            thrown == apiErrors[i].thrown
        IN ~(raw.status = 403 /\ raw.remaining = "0" /\ raw.reset = Null)
           => /\ ErrorKind(thrown) =
                    (IF raw.status = 403 /\ raw.remaining = "0"
                     THEN "RateLimited"
                     ELSE IF raw.status = 404 THEN "NotFound"
                     ELSE IF raw.status = 401 THEN "Unauthorized"
                     ELSE "UpstreamError")
              /\ ErrorKind(thrown) = "RateLimited"
                    => thrown.resetAt = raw.reset
              /\ ErrorKind(thrown) = "UpstreamError"
                    => thrown.status =
                          (IF raw.status = Null THEN 500 ELSE raw.status)

\* C14: when the collaborator listing fails, fetchMaintainers returns the
\* empty set and raises nothing, and the repository query completes with
\* every contributor marked isMaintainer = false.
C14_MaintainersDegrade ==
    FailedCalls({"collaborators"}) # {} =>
        /\ outcome.kind # "error"
        /\ maintainersList = <<>>
        /\ fpc \in {"aggregate", "done"}
        /\ fpc = "done" =>
              /\ outcome.kind = "value"
              /\ \A i \in DOMAIN outcome.value.v.contributors.v :
                    ~outcome.value.v.contributors.v[i].v.isMaintainer.v

\* the listing failed with a rate-limit response that has no reset header,
\* and the query returned statistics with alice among the contributors
C14_Witness ==
    /\ fpc = "done"
    /\ query.op = "repoStats"
    /\ \E i \in FailedCalls({"collaborators"}) :
          /\ apiErrors[i].error.status = 403
          /\ apiErrors[i].error.remaining = "0"
          /\ apiErrors[i].error.reset = Null
    /\ outcome.kind = "value"
    /\ \E i \in DOMAIN outcome.value.v.contributors.v :
          outcome.value.v.contributors.v[i].v.username.v = "alice"

\* C17: when pulls.list answers with a full page of PER_PAGE items whose
\* last item was created before startDate, fetchPullRequests leaves its
\* loop: the page counter stays and no list request is awaited any more.
C17_StopsAfterOldLastItem ==
    [][\A shape \in PageShapes :
          LET data == PageOf(currentPage, shape)
              startDate == getStartDate(query.filter, now)
          IN (/\ fpc = "pulls"
              /\ shape.len = PER_PAGE
              /\ data[PER_PAGE].created_at < startDate
              /\ requests' = Append(requests,
                                    [api |-> "pulls", page |-> currentPage])
              /\ apiErrors' = apiErrors
              /\ allPRs' = allPRs \o filteredPRs(data, startDate))
             => /\ fpc' # "pulls"
                /\ currentPage' = currentPage]_vars

\* once fetchPullRequests has left its loop no list request is issued
C17_NoRequestAfterLoop ==
    [][fpc # "pulls" => RequestsOf("pulls")' = RequestsOf("pulls")]_vars

\* the first page was full, with every item recent but the last: the fetch
\* returned its 99 recent items after one request
C17_Witness ==
    /\ query.op = "pulls" /\ query.page = 1
    /\ fpc = "done"
    /\ outcome.kind = "value"
    /\ Len(RequestsOf("pulls")) = 1
    /\ Len(outcome.value) = PER_PAGE - 1
    /\ outcome.value[PER_PAGE - 1].number = PER_PAGE - 1

\* C20: every PullRequest value the engine builds, from the pulls listing
\* or from the user search, has merged only if its state is closed and its
\* mergedAt is not null.
C20_MergedImpliesClosed ==
    \A i \in DOMAIN allPRs :
        allPRs[i].merged =>
            allPRs[i].state = "closed" /\ allPRs[i].mergedAt # Null

\* the part of C20 that holds: the values built from the pulls listing,
\* whose items always carry merged_at
C20_ListingMergedImpliesClosed ==
    query.op \in {"pulls", "repoStats"} => C20_MergedImpliesClosed

\* the parameter list of the repository statistics query being served
QueryParams == <<query.owner, query.repo, query.branch, query.filter>>

\* C12: the key of a repository statistics query is the key of the same
\* parameters and of no other parameters, an empty branch filter and a
\* branch named "all" included.
C12_KeyInjective ==
    query.op = "repoStats" =>
        \A owner \in OwnerInputs, repo \in RepoInputs,
           branch \in BranchInputs, filter \in TIME_FILTERS :
            (repoStats(owner, repo, branch, filter) = QueryKey)
               <=> (<<owner, repo, branch, filter>> = QueryParams)

\* what holds of the keys: two queries have the same key exactly when they
\* have the same owner, repo and filter, and the same branch or one no
\* branch and the other the branch "all"
C12_InjectiveUpToAllBranch ==
    query.op = "repoStats" =>
        \A owner \in OwnerInputs, repo \in RepoInputs,
           branch \in BranchInputs, filter \in TIME_FILTERS :
            (repoStats(owner, repo, branch, filter) = QueryKey)
               <=> /\ <<owner, repo, filter>> =
                         <<query.owner, query.repo, query.filter>>
                   /\ \/ branch = query.branch
                      \/ {branch, query.branch} = {"", "all"}

\* the names of the query do not pass GitHub's naming rules, as
\* validateNames states them
Malformed ==
    IF query.op = "userStats"
    THEN ~(ownerPattern(query.username) /\ Len(query.username) <= 39)
    ELSE ~validateNames(query.owner, query.repo)

\* no call to the API was issued, and the response, once there is one, is
\* the ValidationError
Rejected ==
    /\ requests = <<>>
    /\ fpc = "done" => (outcome.kind = "error" /\ outcome.error = ValidationError)

\* C18: on every public route a query with a malformed owner, repo or
\* username is rejected with a ValidationError and no call to the API is
\* issued for it.
C18_RejectedBeforeNetwork == (query # NoQuery /\ Malformed) => Rejected

\* the part of C18 that holds: the route that takes a URL rejects malformed
\* names before any call
C18_AnalyzeRejects ==
    (query # NoQuery /\ query.via = "analyze" /\ Malformed) => Rejected

\* the totalStats of the user statistics that were returned
ReturnedTotals == outcome.value.v.totalStats.v

UserStatsReturned ==
    query.op = "userStats" /\ fpc = "done" /\ outcome.kind = "value"

\* C21: the totalStats of every user statistics value that is returned has
\* totalPRs = mergedPRs + openPRs + closedPRs.
C21_UserTotalsAddUp ==
    UserStatsReturned =>
        ReturnedTotals.totalPRs.v =
            ReturnedTotals.mergedPRs.v + ReturnedTotals.openPRs.v
                + ReturnedTotals.closedPRs.v

\* what holds of totalStats: the three counts exceed totalPRs by the number
\* of collected PRs that are open and flagged merged, so they add up when
\* there is no such PR
C21_TotalsExceedByOpenMerged ==
    UserStatsReturned =>
        LET t == totalStats(allPRs)
            openMerged == SelectSeq(allPRs, LAMBDA pr :
                                      pr.merged /\ pr.state = "open")
        IN t.mergedPRs + t.openPRs + t.closedPRs
               = t.totalPRs + Len(openMerged)

\* the pulls.list calls that were answered, with a page or with an error
Answered == RequestsOf("pulls")

\* C22: the pages of one fetchPullRequests are called for one after the
\* other: the i-th call is for page start + i - 1, so no page is called for
\* twice; at most one call is unanswered at any time; and a call is issued
\* only while the loop runs and every earlier call has been answered.
C22_PagesInSequence ==
    /\ \A i \in DOMAIN sent : sent[i] = query.page + i - 1
    /\ Len(sent) - Len(Answered) \in {0, 1}
    /\ \A i \in DOMAIN Answered : Answered[i].page = sent[i]
    /\ (fpc # "pulls" => Len(sent) = Len(Answered))

\* a fetch from page 2 has called for pages 2, 3 and 4, and the call for
\* page 4 is unanswered
C22_Witness ==
    /\ query.op = "pulls" /\ query.page = 2
    /\ sent = <<2, 3, 4>>
    /\ Len(Answered) = 2
    /\ fpc = "pulls"

PullRequestsReturned ==
    query.op = "pulls" /\ fpc = "done" /\ outcome.kind = "value"

\* the items of the pages that were fetched
FetchedItems ==
    UNION {{PageOf(query.page + k - 1, fetched[k])[j] : j \in 1..fetched[k].len} :
              k \in DOMAIN fetched}

ReturnedNumbers == {outcome.value[i].number : i \in DOMAIN outcome.value}

\* C23: every PR that fetchPullRequests returns was created at or after
\* the start date of the time filter, and every item of a fetched page that
\* was created at or after it is returned; with the filter 2w an item
\* created 16 days ago is left out and one created 13 days ago is returned.
C23_FilteredByStartDate ==
    PullRequestsReturned =>
        LET startDate == getStartDate(query.filter, now)
        IN /\ \A i \in DOMAIN outcome.value :
                 outcome.value[i].createdAt >= startDate
           /\ \A item \in FetchedItems :
                 item.created_at >= startDate
                    => item.number \in ReturnedNumbers
           /\ query.filter = "2w" =>
                 \A item \in FetchedItems :
                    /\ item.created_at = now - 16 * Day
                          => item.number \notin ReturnedNumbers
                    /\ item.created_at = now - 13 * Day
                          => item.number \in ReturnedNumbers

\* a fetch with the filter 2w has returned the 99 recent items of a full
\* page and left out the old item in its middle
C23_Witness ==
    /\ PullRequestsReturned
    /\ query.filter = "2w"
    /\ \E item \in FetchedItems : item.created_at = now - 16 * Day
    /\ \E item \in FetchedItems : item.created_at = now - 13 * Day
    /\ Len(outcome.value) >= PER_PAGE - 1

\* C24: the user search, of the backend and of the browser side, issues at
\* most 5 search requests and collects at most 500 PRs, and it awaits a
\* further page only while every page answered so far was full (100 items).
C24_SearchBounded ==
    query.op \in {"userStats", "search"} =>
        /\ Len(RequestsOf("search")) <= 5
        /\ Len(allPRs) <= 500
        /\ fpc = "search" =>
              /\ Len(allPRs) = 100 * Len(RequestsOf("search"))
              /\ Len(RequestsOf("search")) < 5

\* the search of the browser side has returned 401 PRs after five
\* requests: four full pages and a page of one item
C24_Witness ==
    /\ query.op = "search"
    /\ fpc = "done" /\ outcome.kind = "value"
    /\ Len(RequestsOf("search")) = 5
    /\ Len(outcome.value) = 401

\* C26: the fetchPullRequests of the browser side returns at most MAX_PRS
\* pull requests, whatever pages of at most PER_PAGE items it is answered
\* with.
C26_FrontendAtMostMaxPRs ==
    (query.side = "frontend" /\ query.op = "pulls" /\ outcome.kind = "value")
    => Len(outcome.value) <= GITHUB_API_CONFIG.MAX_PRS

\* what holds of the browser side: the cap is tested before a page is asked
\* for, so the result is shorter than MAX_PRS + PER_PAGE, after at most
\* MAX_PAGES requests
C26_FrontendBelowCapPlusPage ==
    (query.side = "frontend" /\ query.op = "pulls")
    => /\ Len(allPRs) < GITHUB_API_CONFIG.MAX_PRS + GITHUB_API_CONFIG.PER_PAGE
       /\ Len(RequestsOf("pulls")) <= GITHUB_API_CONFIG.MAX_PAGES

\* the PRs of the aggregated list that were created, merged, or closed
\* without a merge on day d
CreatedOn(d) ==
    {i \in DOMAIN aggPrs : toDateString(aggPrs[i].createdAt) = d}

MergedOn(d) ==
    {i \in DOMAIN aggPrs :
        aggPrs[i].merged /\ toDateString(aggPrs[i].mergedAt) = d}

ClosedOn(d) ==
    {i \in DOMAIN aggPrs :
        /\ ~aggPrs[i].merged
        /\ aggPrs[i].state = "closed"
        /\ toDateString(aggPrs[i].closedAt) = d}

TimelineDates ==
    {stats.activityTimeline[k].date : k \in DOMAIN stats.activityTimeline}

\* C25: the bucket of each day of the timeline counts as opened the PRs
\* created that day, as merged the merged PRs merged that day and as closed
\* the PRs closed that day without a merge; a PR of a day that has no bucket
\* is in no bucket, and every PR is counted in totalPRs and in the
\* contributors' totals.
C25_TimelineBuckets ==
    aggPc = "done" =>
        /\ \A k \in DOMAIN stats.activityTimeline :
              LET bucket == stats.activityTimeline[k]
              IN /\ bucket.opened = Cardinality(CreatedOn(bucket.date))
                 /\ bucket.merged = Cardinality(MergedOn(bucket.date))
                 /\ bucket.closed = Cardinality(ClosedOn(bucket.date))
        /\ stats.totalPRs = Len(aggPrs)
        /\ SumTotalPRs(stats.contributors) = Len(aggPrs)

\* two PRs were aggregated: one created on a day without a bucket, one
\* created and merged on days with a bucket
C25_Witness ==
    /\ aggPc = "done"
    /\ Len(aggPrs) = 2
    /\ toDateString(aggPrs[1].createdAt) \notin TimelineDates
    /\ aggPrs[2].merged
    /\ {toDateString(aggPrs[2].createdAt), toDateString(aggPrs[2].mergedAt)}
          \subseteq TimelineDates
    /\ stats.totalPRs = 2

\* C27: from the return of set(k, v, ttl) until the TTL has run out or k is
\* set, deleted or flushed again, get(k) returns v, whatever connection
\* events have moved the cache between the distributed store and the
\* in-process Map in the meantime.
C27_ReadYourWrites ==
    \A k \in DOMAIN written :
        now < written[k].expiry => get(k) = written[k].value

\* C28: from the return of delete(k) until the next set(k), get(k) returns
\* null, whatever connection events have moved the cache between the
\* distributed store and the in-process Map in the meantime; so a session
\* whose destroySession has returned is not found by validateSession or
\* getAccessToken, which read it with get.
C28_DeleteIsFinal == \A k \in deleted : get(k) = JNull

\* C29: every API call issued for a request carries the credential of that
\* request, "none" for a request that has no credential.
C29_CallsCarryOwnCredential ==
    \A r \in Requesters :
        \A i \in DOMAIN served[r].calls :
            served[r].calls[i].auth = served[r].token

\* C30: a statistics value that a request is answered with from the cache
\* holds data that was fetched under the credential of that request.
C30_CacheWithinCredential ==
    \A r \in Requesters :
        (served[r].pc = "done" /\ served[r].hit)
            => served[r].source = served[r].token

====
